---- MODULE Spec2Model ----
(***************************************************************************)
(* A model of the buddiesgolf web application: the NewRound form and its   *)
(* score aggregation, the RoundHistory filters, the Dashboard leaderboard  *)
(* and the course data-access layer.                                       *)
(*                                                                         *)
(* Text is modelled as a sequence of code points, so that toLowerCase,     *)
(* includes and the store's string order are computed, not assumed.        *)
(* A JavaScript null is the record Null.                                   *)
(***************************************************************************)
EXTENDS Integers, Sequences, FiniteSets, TLC

VARIABLES
    \* NewRound.tsx component state
    allUsers, loading, saving, savingShown, enteredSince, error, selectedCourse, roundDate,
    selectedPlayers, holeCount, scores,
    \* enteredSince (history): the scorecard cells the user has filled in
    \* since holeCount last changed and the scorecard was last initialised
    \* NewRound.tsx environment: CourseContext value, URL parameter, requests
    \* in flight, the rounds collection and the route shown
    courses, coursesLoading, urlCourseId, userFetches, roundCalls, roundsDb,
    page,
    \* the value last computed by a pure function under evaluation
    result,
    \* the courses collection of the document store and the store's clock
    coursesDb, clock,
    \* CourseContext.tsx state besides courses and loading, and the signed-in
    \* user it reads from the AuthContext
    currentCourse, coursesError, currentUser,
    \* RoundHistory.tsx component state
    rounds, historyUsers, courseFilter, playerFilter, dateFilter,
    filteredRounds,
    \* the filter effect of RoundHistory threw: React tears the page down
    historyFailed,
    \* Dashboard.tsx: the profiles in the order the store returns them, the
    \* allUsers, loading and error states, and the last call of
    \* getLeaderboard (its input array and the rows it returned)
    usersDb, dashUsers, dashLoading, dashError, leaderboard,
    \* AuthContext.tsx: the profile of the signed-in user
    userProfile,
    \* CourseForm.tsx: formData.amenities and the text of the amenity input
    amenities, currentAmenity,
    \* AuthContext.tsx: the loading flag and the getUser calls in flight
    authLoading, profileFetches,
    \* CourseContext.tsx: the operations in flight; the page mounted under
    \* the provider has an effect to run
    courseOps, effectPending

roundVars == <<allUsers, loading, saving, savingShown, enteredSince, error, selectedCourse,
               roundDate,
               selectedPlayers, holeCount, scores, courses, coursesLoading,
               urlCourseId, userFetches, roundCalls, roundsDb, page>>

courseVars == <<coursesDb, clock, currentCourse, coursesError, currentUser>>

historyVars == <<rounds, historyUsers, courseFilter, playerFilter, dateFilter,
                 filteredRounds, historyFailed>>

formVars == <<amenities, currentAmenity>>

ctxVars == <<authLoading, profileFetches, courseOps, effectPending>>

boardVars == <<usersDb, dashUsers, dashLoading, dashError, leaderboard,
               userProfile, formVars, ctxVars>>

vars == <<roundVars, result, courseVars, historyVars, boardVars>>

\* what the course data-access layer and the CourseContext leave alone
notCourseVars == <<allUsers, loading, saving, savingShown, enteredSince, error, selectedCourse,
                   roundDate, selectedPlayers, holeCount, scores, urlCourseId,
                   userFetches, roundCalls, roundsDb, page, historyVars,
                   boardVars>>

\* what the NewRound form and the score functions leave alone
notRoundVars == <<courseVars, historyVars, boardVars>>

Null == [null |-> TRUE]

NoResult == [op |-> "none"]

----------------------------------------------------------------------------
(* Bounds of the model *)

\* longest hole-score array drawn as input of the total functions
MaxLen == 3
\* largest stroke count drawn as input of getWinner
MaxWinnerStroke == 2

\* user profiles in the store
MaxUsers == 6
\* rows of the leaderboard: slice(0, 5)
LeaderboardSize == 5
\* rounds fetched by the RoundHistory page
MaxRounds == 2
\* fetchUsers requests in flight at once on the NewRound page
MaxInFlight == 2
\* submit events handled by the NewRound form before a save completes
MaxSubmits == 2

\* documents of the courses collection drawn as input of getCourses
MaxDocs == 2
\* courses created in one run of the course data-access layer
MaxCourses == 2
\* calls made in one run of course updates, deletions and round creations
MaxEdits == 3

(* Program constants *)

\* '\uf8ff', the suffix of the upper end of the name range of getCourses
HighCodePoint == 63743

\* useState(18), course.holes || 18 and selectedCourse.holes || 18
DefaultHoles == 18
\* selectedCourse.par || 72
DefaultPar == 72

\* ScoreInput accepts stroke counts 1..MaxScore
MaxScore == 10

Uids == {"u1", "u2", "u3"}

----------------------------------------------------------------------------
(* Helpers over sequences *)

RECURSIVE SeqSum(_)
SeqSum(s) == IF s = <<>> THEN 0 ELSE Head(s) + SeqSum(Tail(s))

Range(s) == {s[i] : i \in DOMAIN s}

NoDuplicates(s) == \A i, j \in DOMAIN s : i # j => s[i] # s[j]

\* Array.prototype.includes
Includes(s, x) == \E i \in DOMAIN s : s[i] = x

\* all sequences over S of length 0..n
SeqsUpTo(S, n) == UNION {[1..k -> S] : k \in 0..n}

Max0(x) == IF x > 0 THEN x ELSE 0

----------------------------------------------------------------------------
(* Text: a string is the sequence of its code points *)

\* "Pine", "pine", "Oak", "Dell"
NamePine == <<80, 105, 110, 101>>
NameOak == <<79, 97, 107>>
NameDell == <<68, 101, 108, 108>>

(* The courses the CourseContext provides and the user profiles of the     *)
(* store, in the order the store returns them.                             *)

Course(id, name, holes, par) ==
    [id |-> id, name |-> name, holes |-> holes, par |-> par,
     location |-> [address |-> id, lat |-> 0, lng |-> 0]]

CourseList ==
    << Course("c9", NamePine, 9, 36), Course("c18", NameOak, 18, 72),
       Course("c27", NameDell, 27, 108) >>

CourseIds == {CourseList[i].id : i \in DOMAIN CourseList}

UserList == << "u1", "u2" >>

Dates == {"d1", "d2"}

\* the holes of the score arrays drawn as input of getWinner
WinnerHoles == {1, 2}

\* the hole counts a course or the hole-count dropdown can set
HoleCounts == {9, 18} \cup {CourseList[i].holes : i \in DOMAIN CourseList}

\* the holes and the stroke counts the user enters on the scorecard
EditHoles == {1}
EnteredStrokes == {1, 2}

\* the requests in flight form a bag: userFetches[h] counts the pending
\* getAllUsers calls whose closure captured holeCount h
NoFetches == [h \in HoleCounts |-> 0]

InFlight == LET RECURSIVE Sum(_)
                Sum(S) == IF S = {} THEN 0
                          ELSE LET h == CHOOSE x \in S : TRUE
                               IN  userFetches[h] + Sum(S \ {h})
            IN  Sum(HoleCounts)

\* courses.find(c => c.id === courseId)
FindCourse(list, courseId) ==
    LET hits == {i \in DOMAIN list : list[i].id = courseId}
    IN  IF hits = {} THEN Null
        ELSE list[CHOOSE i \in hits : \A j \in hits : i <= j]

\* x || d for a number x
OrDefault(x, d) == IF x = 0 THEN d ELSE x

\* new Array(n).fill(0)
Zeros(n) == [i \in 1..n |-> 0]

\* the sequence s without its i-th element
RemoveAt(s, i) == [j \in 1..(Len(s) - 1) |-> IF j < i THEN s[j] ELSE s[j + 1]]

----------------------------------------------------------------------------
(* NewRound.tsx: score aggregation *)

\* scores[uid]?.reduce((sum, score) => sum + (score || 0), 0) || 0
calculateTotalScoreSkipFirst(uid) ==
    IF uid \in DOMAIN scores /\ scores[uid] # <<>>
    THEN SeqSum(Tail(scores[uid])) ELSE 0

calculateTotalScore(uid) ==
    IF uid \in DOMAIN scores THEN SeqSum(scores[uid]) ELSE 0

\* selectedPlayers.map(uid => ({uid, total}))
playerScores ==
    [i \in DOMAIN selectedPlayers |->
        [uid |-> selectedPlayers[i],
         total |-> calculateTotalScore(selectedPlayers[i])]]

\* Array.prototype.reduce without an initial value, folding from the left:
\* the accumulator starts as the first element
RECURSIVE ReduceWinner(_, _)
ReduceWinner(winner, rest) ==
    IF rest = <<>> THEN winner
    ELSE ReduceWinner(IF Head(rest).total < winner.total THEN Head(rest)
                      ELSE winner, Tail(rest))

RECURSIVE ReduceWinnerLast(_, _)
ReduceWinnerLast(winner, rest) ==
    IF rest = <<>> THEN winner
    ELSE ReduceWinnerLast(IF Head(rest).total <= winner.total THEN Head(rest)
                          ELSE winner, Tail(rest))

getWinnerLast == ReduceWinnerLast(Head(playerScores), Tail(playerScores))

\* reduce of an empty array without an initial value throws a TypeError
getWinner == ReduceWinner(Head(playerScores), Tail(playerScores))

(* RoundHistory.tsx: total of one player of a stored round *)

\* round.scores.find(s => s.uid === uid)
FindScore(round, uid) ==
    LET hits == {i \in DOMAIN round.scores : round.scores[i].uid = uid}
    IN  IF hits = {} THEN Null
        ELSE round.scores[CHOOSE i \in hits : \A j \in hits : i <= j]

getPlayerScore(round, uid) ==
    LET playerScore == FindScore(round, uid)
    IN  IF playerScore # Null THEN SeqSum(playerScore.holes) ELSE 0

----------------------------------------------------------------------------
(* The form is not mounted in the specifications that evaluate one pure    *)
(* function or another page.                                               *)

CoursesIdle ==
    /\ coursesDb = <<>>
    /\ clock = 0
    /\ currentCourse = Null
    /\ coursesError = "null"
    /\ currentUser = Null

HistoryIdle ==
    /\ rounds = <<>>
    /\ historyUsers = <<>>
    /\ courseFilter = <<>>
    /\ playerFilter = <<>>
    /\ dateFilter = ""
    /\ filteredRounds = <<>>
    /\ historyFailed = FALSE

NoBoard == [called |-> FALSE]

\* the course form as it is mounted for a new course
FormIdle ==
    /\ amenities = <<>>
    /\ currentAmenity = <<>>

CtxIdle ==
    /\ authLoading = TRUE
    /\ profileFetches = <<>>
    /\ courseOps = <<>>
    /\ effectPending = FALSE

BoardIdle ==
    /\ FormIdle /\ CtxIdle
    /\ usersDb = <<>>
    /\ dashUsers = <<>>
    /\ dashLoading = TRUE
    /\ dashError = "null"
    /\ leaderboard = NoBoard
    /\ userProfile = Null

NotRoundIdle == CoursesIdle /\ HistoryIdle /\ BoardIdle

RoundRestIdle ==
    /\ allUsers = <<>>
    /\ loading = TRUE
    /\ saving = FALSE
    /\ savingShown = FALSE
    /\ enteredSince = {}
    /\ error = "null"
    /\ selectedCourse = Null
    /\ roundDate = "d1"
    /\ holeCount = DefaultHoles
    /\ courses = <<>>
    /\ coursesLoading = FALSE
    /\ urlCourseId = "null"
    /\ userFetches = NoFetches
    /\ roundCalls = <<>>
    /\ roundsDb = <<>>
    /\ page = "none"

RoundIdle ==
    /\ RoundRestIdle
    /\ selectedPlayers = <<>>
    /\ scores = <<>>

----------------------------------------------------------------------------
(* SpecTotal: calculateTotalScore and getPlayerScore on every hole-score   *)
(* array of 0..MaxLen entries, each 0 (unset) or a stroke count            *)
(* 1..MaxScore, and on a player without a score array.                     *)

HoleArrays == SeqsUpTo(0..MaxScore, MaxLen)

\* the stored round whose score list is the given player -> array mapping
RoundOfScores(players) ==
    [players |-> players,
     scores |-> [i \in DOMAIN players |->
                    [uid |-> players[i], holes |-> scores[players[i]]]]]

InitTotal ==
    /\ RoundRestIdle
    /\ \/ /\ selectedPlayers = <<"u1">>
          /\ \E a \in HoleArrays : scores = [u \in {"u1"} |-> a]
       \/ /\ selectedPlayers = <<>>
          /\ scores = <<>>
    /\ result = NoResult
    /\ NotRoundIdle

EvalTotal ==
    /\ result = NoResult
    /\ result' = [op |-> "calculateTotalScore", uid |-> "u1",
                  value |-> calculateTotalScore("u1")]
    /\ UNCHANGED <<roundVars, notRoundVars>>

EvalPlayerScore ==
    /\ result = NoResult
    /\ result' = [op |-> "getPlayerScore", uid |-> "u1",
                  value |-> getPlayerScore(RoundOfScores(selectedPlayers), "u1")]
    /\ UNCHANGED <<roundVars, notRoundVars>>

NextTotal == EvalTotal \/ EvalPlayerScore

SpecTotal == InitTotal /\ [][NextTotal]_vars

\* the array the evaluated player has, <<>> when the player has none
ArrayOf(uid) == IF uid \in DOMAIN scores THEN scores[uid] ELSE <<>>

RECURSIVE SumMax0(_)
SumMax0(a) == IF a = <<>> THEN 0 ELSE Max0(Head(a)) + SumMax0(Tail(a))

\* C2: the total computed for a player (by calculateTotalScore on the form,
\* by getPlayerScore on a stored round) is the sum of max(entry, 0) over the
\* player's hole-score array; it is 0 for an empty array and for a player
\* with no array, and 12 for <<4,4,4>>.
C2_TotalIsSum ==
    result.op \in {"calculateTotalScore", "getPlayerScore"} =>
        /\ result.value = SumMax0(ArrayOf(result.uid))
        /\ ArrayOf(result.uid) = <<>> => result.value = 0
        /\ ArrayOf(result.uid) = <<4, 4, 4>> => result.value = 12

C2_Witness ==
    /\ result.op = "calculateTotalScore"
    /\ "u1" \in DOMAIN scores
    /\ scores["u1"] = <<4, 4, 4>>
    /\ result.value = 12

----------------------------------------------------------------------------
(* SpecWinner: getWinner on every non-empty selection of distinct players  *)
(* and every assignment of score arrays.                                   *)

Selections == {s \in SeqsUpTo(Uids, Cardinality(Uids)) : NoDuplicates(s)}

InitWinner ==
    /\ RoundRestIdle
    /\ selectedPlayers \in Selections \ {<<>>}
    /\ scores \in [Uids -> [WinnerHoles -> 0..MaxWinnerStroke]]
    /\ result = NoResult
    /\ NotRoundIdle

EvalWinner ==
    /\ result = NoResult
    /\ result' = [op |-> "getWinner", value |-> getWinner]
    /\ UNCHANGED <<roundVars, notRoundVars>>

NextWinner == EvalWinner

SpecWinner == InitWinner /\ [][NextWinner]_vars

IndexOf(s, x) == CHOOSE i \in DOMAIN s : s[i] = x

\* C1: getWinner returns a selected player whose total is <= the total of
\* every selected player, and among the players with the minimum total the
\* one selected first.
C1_WinnerIsFirstMinimum ==
    result.op = "getWinner" =>
        /\ Includes(selectedPlayers, result.value.uid)
        /\ result.value.total = SeqSum(scores[result.value.uid])
        /\ \A i \in DOMAIN selectedPlayers :
              /\ result.value.total <= SeqSum(scores[selectedPlayers[i]])
              /\ SeqSum(scores[selectedPlayers[i]]) = result.value.total
                    => IndexOf(selectedPlayers, result.value.uid) <= i

C1_Witness ==
    /\ result.op = "getWinner"
    /\ selectedPlayers = <<"u2", "u3", "u1">>
    /\ SeqSum(scores["u2"]) > SeqSum(scores["u3"])
    /\ SeqSum(scores["u3"]) = SeqSum(scores["u1"])
    /\ result.value.uid = "u3"

----------------------------------------------------------------------------
(* NewRound.tsx: the form *)

\* the form is rendered (not the spinner) and the page is still mounted
FormShown == page = "form" /\ ~loading /\ ~coursesLoading

\* The model explores the user's input while no createRound call is in
\* flight: the form stays editable during a save, but what is typed then
\* reaches no round record unless the save fails, and that case is a state
\* in which the user acts again.
UserActs == FormShown /\ roundCalls = <<>>

\* the fetchUsers effect, run when holeCount changes to h: setError(null),
\* then getAllUsers is awaited with h captured
StartFetchUsers(h) ==
    /\ error' = "null"
    /\ userFetches' = [userFetches EXCEPT ![h] = @ + 1]

\* the course effect (deps searchParams, courses) when the context delivers
\* the course list, followed by the fetchUsers effect when holeCount changed
CoursesLoaded ==
    /\ page = "form"
    /\ coursesLoading
    /\ courses' = CourseList
    /\ coursesLoading' = FALSE
    /\ LET course == FindCourse(CourseList, urlCourseId)
       IN  IF urlCourseId # "null" /\ Len(CourseList) > 0 /\ course # Null
           THEN /\ selectedCourse' = course
                /\ holeCount' = OrDefault(course.holes, DefaultHoles)
                /\ IF holeCount' # holeCount
                   THEN StartFetchUsers(holeCount')
                   ELSE UNCHANGED <<error, userFetches>>
           ELSE UNCHANGED <<selectedCourse, holeCount, error, userFetches>>
    /\ savingShown' = saving
    /\ UNCHANGED enteredSince
    /\ UNCHANGED <<allUsers, loading, saving, roundDate, selectedPlayers,
                   scores, urlCourseId, roundCalls, roundsDb, page, result, notRoundVars>>

\* getAllUsers resolves: setAllUsers, setScores with arrays of the captured
\* hole count, setLoading(false)
UsersFetched(h) ==
    /\ page = "form"
    /\ userFetches[h] > 0
    /\ allUsers' = UserList
    /\ scores' = [u \in Range(UserList) |-> Zeros(h)]
    /\ loading' = FALSE
    /\ userFetches' = [userFetches EXCEPT ![h] = @ - 1]
    /\ savingShown' = saving
    /\ enteredSince' = {}
    /\ UNCHANGED <<saving, error, selectedCourse, roundDate, selectedPlayers,
                   holeCount, courses, coursesLoading, urlCourseId,
                   roundCalls, roundsDb, page, result, notRoundVars>>

\* getAllUsers rejects: the catch branch and setLoading(false)
UsersFetchFailed(h) ==
    /\ page = "form"
    /\ userFetches[h] > 0
    /\ error' = "Failed to load users. Please refresh the page."
    /\ loading' = FALSE
    /\ userFetches' = [userFetches EXCEPT ![h] = @ - 1]
    /\ savingShown' = saving
    /\ UNCHANGED enteredSince
    /\ UNCHANGED <<allUsers, saving, selectedCourse, roundDate,
                   selectedPlayers, holeCount, scores, courses,
                   coursesLoading, urlCourseId, roundCalls, roundsDb, page,
                   result, notRoundVars>>

\* prev.includes(uid) ? prev.filter(id => id !== uid) : [...prev, uid]
TogglePlayerKeep(prev, uid) == Append(prev, uid)

TogglePlayer(prev, uid) ==
    IF Includes(prev, uid)
    THEN SelectSeq(prev, LAMBDA id : id # uid)
    ELSE Append(prev, uid)

handlePlayerToggle(uid) ==
    /\ UserActs
    /\ Includes(allUsers, uid)
    /\ selectedPlayers' = TogglePlayer(selectedPlayers, uid)
    /\ UNCHANGED <<allUsers, loading, saving, savingShown, enteredSince, error, selectedCourse,
                   roundDate, holeCount, scores, courses, coursesLoading,
                   urlCourseId, userFetches, roundCalls, roundsDb, page,
                   result, notRoundVars>>

\* ScoreInput.tsx: the values handleChange, the arrow keys and the +/-
\* buttons pass to onChange when the input shows value
ScoreInputChanges(value) ==
    (1..MaxScore)
    \cup (IF value < MaxScore THEN {value + 1} ELSE {})
    \cup (IF value > 1 THEN {value - 1} ELSE {})

\* value={scores[uid]?.[i] || 0}
ShownValue(uid, i) ==
    IF uid \in DOMAIN scores /\ i \in DOMAIN scores[uid] THEN scores[uid][i]
    ELSE 0

\* prev[uid].map((s, i) => i === holeIndex ? score : s)
handleScoreChange(uid, holeIndex, score) ==
    /\ UserActs
    /\ Includes(selectedPlayers, uid)
    /\ holeIndex \in 1..holeCount
    /\ uid \in DOMAIN scores
    /\ score \in ScoreInputChanges(ShownValue(uid, holeIndex))
    /\ scores' = [scores EXCEPT ![uid] =
                    [i \in DOMAIN scores[uid] |->
                        IF i = holeIndex THEN score ELSE scores[uid][i]]]
    /\ enteredSince' = enteredSince \cup {<<uid, holeIndex>>}
    /\ UNCHANGED <<allUsers, loading, saving, savingShown, error, selectedCourse,
                   roundDate, selectedPlayers, holeCount, courses,
                   coursesLoading, urlCourseId, userFetches, roundCalls,
                   roundsDb, page, result, notRoundVars>>

\* Combobox onChange={setSelectedCourse}
SelectCourse(course) ==
    /\ UserActs
    /\ Includes(courses, course)
    /\ selectedCourse' = course
    /\ UNCHANGED <<allUsers, loading, saving, savingShown, enteredSince, error, roundDate,
                   selectedPlayers, holeCount, scores, courses,
                   coursesLoading, urlCourseId, userFetches, roundCalls,
                   roundsDb, page, result, notRoundVars>>

\* the hole-count dropdown (options 9 and 18): setHoleCount, then the
\* fetchUsers effect when the value changed
SetHoleCount(h) ==
    /\ UserActs
    /\ h \in {9, 18}
    /\ holeCount' = h
    /\ IF h # holeCount
       THEN InFlight < MaxInFlight /\ StartFetchUsers(h)
       ELSE UNCHANGED <<error, userFetches>>
    /\ enteredSince' = IF h # holeCount THEN {} ELSE enteredSince
    /\ UNCHANGED <<allUsers, loading, saving, savingShown, selectedCourse, roundDate,
                   selectedPlayers, scores, courses, coursesLoading,
                   urlCourseId, roundCalls, roundsDb, page, result, notRoundVars>>

\* validateForm: the message it sets, "null" when the form is valid
\* score === null || score === undefined: an entry is a number, the 0 of
\* fill(0) or a stroke count
IsUnset(score) == score \notin Int

\* the first failing check of a player in the loop of validateForm
PlayerError(uid) ==
    IF uid \notin DOMAIN scores \/ Len(scores[uid]) = 0
    THEN "Please enter scores for all selected players"
    ELSE IF \E h \in DOMAIN scores[uid] : IsUnset(scores[uid][h])
    THEN "Please enter a valid score for all holes"
    ELSE "null"

\* validateForm with only its loop over the players' scores
ValidationErrorScoresOnly ==
    LET failing == {i \in DOMAIN selectedPlayers :
                       PlayerError(selectedPlayers[i]) # "null"}
    IN  IF failing # {}
        THEN PlayerError(selectedPlayers[CHOOSE i \in failing :
                                            \A j \in failing : i <= j])
        ELSE "null"

\* validateForm: the message it sets, "null" when it returns true
ValidationError ==
    LET failing == {i \in DOMAIN selectedPlayers :
                       PlayerError(selectedPlayers[i]) # "null"}
    IN  IF selectedCourse = Null THEN "Please select a course"
        ELSE IF Len(selectedPlayers) < 1
        THEN "Please select at least one player"
        ELSE IF failing # {}
        THEN PlayerError(selectedPlayers[CHOOSE i \in failing :
                                            \A j \in failing : i <= j])
        ELSE "null"

\* the record handleSubmit builds from the course, the date, the players,
\* their score arrays and the winner
RoundDataOf(course, date, players, holes, winner) ==
    [courseId |-> course.id,
     courseName |-> course.name,
     course |-> course,
     date |-> date,
     players |-> players,
     scores |-> [i \in DOMAIN players |->
                    [uid |-> players[i], holes |-> holes[players[i]]]],
     winner |-> winner,
     holeCount |-> OrDefault(course.holes, DefaultHoles),
     par |-> OrDefault(course.par, DefaultPar),
     location |-> course.location]

\* the record handleSubmit passes to createRound
roundData ==
    RoundDataOf(selectedCourse, roundDate, selectedPlayers, scores,
                getWinner.uid)

\* getWinner() and selectedCourse.id inside the try block of handleSubmit
\* throw a TypeError on an empty player list and on a null course
RoundDataThrows == selectedCourse = Null \/ selectedPlayers = <<>>

\* handleSubmit up to its await: validateForm, setSaving(true),
\* setError(null), createRound(roundData) issued; an error thrown while
\* roundData is built is caught, and saving is false again at the end.
\* The handler itself does not read saving: only the submit button, as last
\* rendered, is disabled by it. A submit event handled before that render
\* runs the handler of the same render again, on the same state.
handleSubmit ==
    /\ FormShown
    /\ ~savingShown
    /\ roundCalls = <<>> \/ saving
    /\ Len(roundCalls) < MaxSubmits
    /\ IF ValidationError # "null"
       THEN /\ error' = ValidationError
            /\ UNCHANGED <<saving, roundCalls>>
       ELSE IF RoundDataThrows
       THEN /\ error' = "Failed to save round. Please try again."
            /\ UNCHANGED <<saving, roundCalls>>
       ELSE /\ saving' = TRUE
            /\ error' = "null"
            /\ roundCalls' = Append(roundCalls, roundData)
    /\ UNCHANGED <<allUsers, loading, savingShown, enteredSince, selectedCourse, roundDate,
                   selectedPlayers, holeCount, scores, courses,
                   coursesLoading, urlCourseId, userFetches, roundsDb, page,
                   result, notRoundVars>>

\* the render after setSaving(true): the submit button becomes disabled
RenderSaving ==
    /\ page = "form"
    /\ savingShown # saving
    /\ savingShown' = saving
    /\ UNCHANGED enteredSince
    /\ UNCHANGED <<allUsers, loading, saving, error, selectedCourse,
                   roundDate, selectedPlayers, holeCount, scores, courses,
                   coursesLoading, urlCourseId, userFetches, roundCalls,
                   roundsDb, page, result, notRoundVars>>

\* a store that would keep one document per content
addDocOnce(collection, data) ==
    IF Includes(collection, data) THEN collection ELSE Append(collection, data)

\* addDoc(collection(db, 'rounds'), data): a new document under a fresh id
addDoc(collection, data) == Append(collection, data)

\* firebase createRound resolves: addDoc has added the record to the rounds
\* collection as a new document; handleSubmit navigates to '/' and sets
\* saving false. A call still in flight when the form was left only adds
\* its record.
CreateRoundDone(i) ==
    /\ i \in DOMAIN roundCalls
    /\ roundsDb' = addDoc(roundsDb, roundCalls[i])
    /\ roundCalls' = RemoveAt(roundCalls, i)
    /\ IF page = "form"
       THEN /\ page' = "left"
            /\ saving' = FALSE
            /\ savingShown' = FALSE
            /\ enteredSince' = {}
            \* the route change unmounts the form: its state is discarded
            \* and the answers of user-list requests in flight are dropped
            /\ allUsers' = <<>>
            /\ loading' = TRUE
            /\ error' = "null"
            /\ selectedCourse' = Null
            /\ selectedPlayers' = <<>>
            /\ holeCount' = DefaultHoles
            /\ scores' = <<>>
            /\ userFetches' = NoFetches
       ELSE UNCHANGED <<page, saving, savingShown, enteredSince, allUsers, loading, error,
                        selectedCourse, selectedPlayers, holeCount, scores,
                        userFetches>>
    /\ UNCHANGED <<roundDate, courses, coursesLoading, urlCourseId, result, notRoundVars>>

\* a handler that would leave a failed call in flight, issued again
CreateRoundFailedRetry(i) ==
    /\ i \in DOMAIN roundCalls
    /\ page = "form"
    /\ error' = "Failed to save round. Please try again."
    /\ saving' = FALSE
    /\ savingShown' = FALSE
    /\ UNCHANGED enteredSince
    /\ UNCHANGED <<allUsers, loading, selectedCourse, roundDate,
                   selectedPlayers, holeCount, scores, courses,
                   coursesLoading, urlCourseId, userFetches, roundCalls,
                   roundsDb, page, result, notRoundVars>>

\* firebase createRound rejects: the catch branch and setSaving(false);
\* nothing is shown when the form was left meanwhile
CreateRoundFailed(i) ==
    /\ i \in DOMAIN roundCalls
    /\ roundCalls' = RemoveAt(roundCalls, i)
    /\ IF page = "form"
       THEN /\ error' = "Failed to save round. Please try again."
            /\ saving' = FALSE
            /\ savingShown' = FALSE
       ELSE UNCHANGED <<error, saving, savingShown>>
    /\ UNCHANGED enteredSince
    /\ UNCHANGED <<allUsers, loading, selectedCourse, roundDate,
                   selectedPlayers, holeCount, scores, courses,
                   coursesLoading, urlCourseId, userFetches, roundsDb, page,
                   result, notRoundVars>>

\* the page after its mount effects: the course list is still loading, the
\* first fetchUsers request (holeCount 18) is in flight
InitRound ==
    /\ allUsers = <<>>
    /\ loading = TRUE
    /\ saving = FALSE
    /\ savingShown = FALSE
    /\ enteredSince = {}
    /\ error = "null"
    /\ selectedCourse = Null
    /\ roundDate = "d1"
    /\ selectedPlayers = <<>>
    /\ holeCount = DefaultHoles
    /\ scores = <<>>
    /\ courses = <<>>
    /\ coursesLoading = TRUE
    /\ urlCourseId \in {"null", "c27"}
    /\ userFetches = [NoFetches EXCEPT ![DefaultHoles] = 1]
    /\ roundCalls = <<>>
    /\ roundsDb = <<>>
    /\ page = "form"
    /\ result = NoResult
    /\ NotRoundIdle

NextRound ==
    \/ CoursesLoaded
    \/ \E h \in HoleCounts : UsersFetched(h)
    \/ \E h \in HoleCounts : UsersFetchFailed(h)
    \/ \E uid \in Range(UserList) : handlePlayerToggle(uid)
    \/ \E uid \in Range(UserList), holeIndex \in EditHoles,
          score \in EnteredStrokes : handleScoreChange(uid, holeIndex, score)
    \/ \E i \in DOMAIN CourseList : SelectCourse(CourseList[i])
    \/ \E h \in {9, 18} : SetHoleCount(h)
    \/ handleSubmit
    \/ RenderSaving
    \/ \E i \in DOMAIN roundCalls : CreateRoundDone(i)
    \/ \E i \in DOMAIN roundCalls : CreateRoundFailed(i)

SpecRound == InitRound /\ [][NextRound]_vars

\* C3: every round record passed to createRound has hole-score arrays whose
\* length is the record's holeCount.
C3_ScoreLengthIsHoleCount ==
    \A c \in DOMAIN roundCalls : \A i \in DOMAIN roundCalls[c].scores :
        Len(roundCalls[c].scores[i].holes) = roundCalls[c].holeCount

\* C4: every round record passed to createRound lists in scores exactly the
\* players of its players list, in the same order and without duplicates,
\* and its winner is one of them.
C4_ScoresMatchPlayers ==
    \A c \in DOMAIN roundCalls :
        LET r == roundCalls[c]
        IN  /\ Len(r.scores) = Len(r.players)
            /\ \A i \in DOMAIN r.players : r.scores[i].uid = r.players[i]
            /\ NoDuplicates(r.players)
            /\ Includes(r.players, r.winner)

\* C15: handleSubmit with no course selected, or with no player selected,
\* issues no createRound call and shows the message of validateForm; every
\* createRound call issued carries a course and at least one player, so
\* that getWinner ran on a list that was not empty.
C15_NoCallWithoutCourseOrPlayer ==
    [][/\ (handleSubmit /\ (selectedCourse = Null \/ Len(selectedPlayers) < 1))
          => /\ roundCalls' = roundCalls
             /\ ~saving'
             /\ error' = IF selectedCourse = Null
                         THEN "Please select a course"
                         ELSE "Please select at least one player"
       /\ Len(roundCalls') > Len(roundCalls)
          => /\ selectedCourse # Null
             /\ roundCalls'[Len(roundCalls')].players # <<>>
             /\ roundCalls'[Len(roundCalls')].players = selectedPlayers]_vars

\* a submission with a course chosen and no player selected has been
\* refused
C15_Witness ==
    /\ page = "form"
    /\ selectedCourse # Null
    /\ selectedPlayers = <<>>
    /\ error = "Please select at least one player"
    /\ roundCalls = <<>> /\ roundsDb = <<>>

\* C16: every round record passed to createRound has a stroke count (no
\* unset 0) in every hole entry of every player.
C16_CardsComplete ==
    \A c \in DOMAIN roundCalls : \A i \in DOMAIN roundCalls[c].scores :
        \A h \in DOMAIN roundCalls[c].scores[i].holes :
            roundCalls[c].scores[i].holes[h] # 0

\* a submission made after a player was selected, deselected and selected
\* again behind another player
C4_Witness ==
    /\ Len(roundCalls) = 1
    /\ roundCalls[1].players = <<"u2", "u1">>
    /\ roundCalls[1].scores[1].uid = "u2"
    /\ roundCalls[1].scores[2].uid = "u1"

\* C21: handleSubmit does not look at the saving flag: a submit event
\* handled while saving is set but not yet rendered issues another
\* createRound call with the same record, and every call that resolves
\* adds its own document, so that two equal round records are stored.
C21_NoDeduplication ==
    [][/\ (handleSubmit /\ saving)
          => /\ roundCalls # <<>>
             /\ roundCalls' = Append(roundCalls, roundCalls[Len(roundCalls)])
       /\ \A i \in DOMAIN roundCalls :
             CreateRoundDone(i) => roundsDb' = Append(roundsDb, roundCalls[i])]_vars

\* both calls of a double submission have resolved: two documents with the
\* same content
C21_Witness ==
    /\ Len(roundsDb) = 2
    /\ roundsDb[1] = roundsDb[2]
    /\ roundCalls = <<>>
    /\ page = "left"

\* C22: when a createRound call fails while the form is shown, that call is
\* removed and none is issued in its place, the banner is set, the form
\* stays and saving is false; when it resolves, saving is false as well.
C22_FailureIsNotRetried ==
    [][\A i \in DOMAIN roundCalls :
          /\ (CreateRoundFailed(i) /\ page = "form")
             => /\ Len(roundCalls') = Len(roundCalls) - 1
                /\ \A j \in DOMAIN roundCalls' :
                      roundCalls'[j] = roundCalls[IF j < i THEN j ELSE j + 1]
                /\ roundsDb' = roundsDb
                /\ error' = "Failed to save round. Please try again."
                /\ page' = "form"
                /\ ~saving'
          /\ (CreateRoundDone(i) /\ page = "form") => ~saving']_vars

\* a single submission has failed: the banner is shown on the form, nothing
\* is stored and nothing is in flight
C22_Witness ==
    /\ page = "form"
    /\ error = "Failed to save round. Please try again."
    /\ selectedCourse # Null /\ selectedPlayers # <<>>
    /\ ~saving
    /\ roundCalls = <<>> /\ roundsDb = <<>>

\* C24: every scorecard entry is an integer in 0..10, every value the
\* ScoreInput passes to handleScoreChange is in 1..10, and an entry that
\* holds a stroke count never goes back to 0 while the form is shown.
C24_EntriesStayInRange ==
    [][\A uid \in DOMAIN scores : \A i \in DOMAIN scores[uid] :
          /\ scores[uid][i] \in 0..MaxScore
          /\ ScoreInputChanges(scores[uid][i]) \subseteq 1..MaxScore
          /\ (/\ scores[uid][i] >= 1
              /\ uid \in DOMAIN scores'
              /\ i \in DOMAIN scores'[uid])
             => scores'[uid][i] >= 1]_vars

\* C30: once no user-list fetch is in flight (and none has failed), every
\* score array has holeCount entries; and a fetch completion leaves the
\* cells alone that the user filled in since holeCount last changed.
C30_FetchesSettleOnHoleCount ==
    [][/\ (/\ page = "form"
           /\ InFlight = 0
           /\ error # "Failed to load users. Please refresh the page.")
          => \A uid \in DOMAIN scores : Len(scores[uid]) = holeCount
       /\ \A h \in HoleCounts :
             UsersFetched(h)
             => \A cell \in enteredSince :
                   /\ cell[2] \in DOMAIN scores'[cell[1]]
                   /\ scores'[cell[1]][cell[2]] = scores[cell[1]][cell[2]]]_vars

----------------------------------------------------------------------------
(* firebase.ts: the courses collection and getCourses *)

\* the store's string order: lexicographic by code point
RECURSIVE StrLeq(_, _)
StrLeq(a, b) ==
    IF a = <<>> THEN TRUE
    ELSE IF b = <<>> THEN FALSE
    ELSE IF Head(a) # Head(b) THEN Head(a) < Head(b)
    ELSE StrLeq(Tail(a), Tail(b))

\* where('name', '>=', term) and where('name', '<=', term + '\\uf8ff')
InNameRange(name, term) ==
    /\ StrLeq(term, name)
    /\ StrLeq(name, Append(term, HighCodePoint))

\* a scope that adds the public courses to those of the user
InScopeEither(doc, userId) ==
    IF userId # "" THEN doc.createdBy = userId \/ doc.isPublic = TRUE
    ELSE doc.isPublic = TRUE

\* where('createdBy', '==', userId), else where('isPublic', '==', true)
InScope(doc, userId) ==
    IF userId # "" THEN doc.createdBy = userId ELSE doc.isPublic = TRUE

\* orderBy('name'): ascending by name; documents of equal name follow in
\* document-id order, which is the order of the collection here
RECURSIVE InsertByName(_, _)
InsertByName(doc, sorted) ==
    IF sorted = <<>> THEN <<doc>>
    ELSE IF StrLeq(Head(sorted).name, doc.name)
         THEN <<Head(sorted)>> \o InsertByName(doc, Tail(sorted))
         ELSE <<doc>> \o sorted

RECURSIVE OrderByName(_)
OrderByName(docs) ==
    IF docs = <<>> THEN <<>>
    ELSE InsertByName(docs[Len(docs)], OrderByName(SubSeq(docs, 1, Len(docs) - 1)))

\* limit(n)
Limit(docs, n) == IF Len(docs) > n THEN SubSeq(docs, 1, n) ELSE docs

\* options: userId "" , searchTerm <<>> and limit 0 stand for an absent (or
\* falsy) option
getCourses(options) ==
    LET scoped == SelectSeq(coursesDb, LAMBDA d : InScope(d, options.userId))
        ranged == IF options.searchTerm # <<>>
                  THEN SelectSeq(scoped,
                           LAMBDA d : InNameRange(d.name, options.searchTerm))
                  ELSE scoped
        ordered == OrderByName(ranged)
    IN  IF options.limit # 0 THEN Limit(ordered, options.limit) ELSE ordered

----------------------------------------------------------------------------
(* SpecSearch: getCourses on every collection of up to MaxDocs courses     *)
(* whose names are drawn from SearchNames.                                 *)

\* "a", "ab", "a" + U+F8FF, "a" + U+FFFD, "A"
SearchNames == { <<97>>, <<97, 98>>, <<97, 63743>>, <<97, 65533>>, <<65>> }

\* "", "a", "A", "ab"
SearchTerms == { <<>>, <<97>>, <<65>>, <<97, 98>> }

Owners == {"u1", "u2"}

DocIds == <<"k1", "k2", "k3", "k4">>

StoredCourse(id, name, createdBy, isPublic, at) ==
    [id |-> id, name |-> name,
     location |-> [address |-> "1 Main St", lat |-> 0, lng |-> 0],
     holes |-> 18, par |-> 72, rating |-> 0, slope |-> 0, amenities |-> <<>>,
     createdAt |-> at, updatedAt |-> at,
     createdBy |-> createdBy, isPublic |-> isPublic]

InitSearch ==
    /\ RoundRestIdle /\ selectedPlayers = <<>> /\ scores = <<>>
    /\ HistoryIdle /\ BoardIdle
    /\ currentCourse = Null /\ coursesError = "null"
    /\ currentUser \in {Null, [uid |-> "u1"]}
    /\ \E n \in 0..MaxDocs :
         /\ clock = n
         /\ \E names \in [1..n -> SearchNames], owners \in [1..n -> Owners],
               public \in [1..n -> BOOLEAN] :
              coursesDb = [i \in 1..n |->
                  StoredCourse(DocIds[i], names[i], owners[i], public[i], i)]
    /\ result = NoResult

EvalGetCourses(options) ==
    /\ result = NoResult
    /\ result' = [op |-> "getCourses", options |-> options,
                  value |-> getCourses(options)]
    /\ UNCHANGED <<roundVars, courseVars, historyVars, boardVars>>

\* CourseContext.searchCourses: getCourses for the signed-in user (for the
\* public courses when nobody is signed in); loading is false at the end
\* and a failure of the store (ok false) sets the context's error
searchCourses(searchTerm, ok) ==
    LET options == [userId |-> IF currentUser = Null THEN ""
                               ELSE currentUser.uid,
                    searchTerm |-> searchTerm, limit |-> 0]
    IN  /\ result = NoResult
        /\ coursesLoading' = FALSE
        /\ IF ok
           THEN /\ result' = [op |-> "searchCourses", options |-> options,
                              value |-> getCourses(options)]
                /\ UNCHANGED coursesError
           ELSE /\ result' = [op |-> "searchCourses", options |-> options,
                              value |-> <<>>, outcome |-> "thrown"]
                /\ coursesError' = "Failed to search courses. Please try again."
        /\ UNCHANGED <<coursesDb, clock, currentCourse, currentUser>>
        /\ UNCHANGED <<allUsers, loading, saving, savingShown, enteredSince, error, selectedCourse,
                       roundDate, selectedPlayers, holeCount, scores, courses,
                       urlCourseId, userFetches, roundCalls, roundsDb, page>>
        /\ UNCHANGED <<historyVars, boardVars>>

NextSearch ==
    \/ \E userId \in {""} \cup Owners, term \in SearchTerms,
          n \in 0..MaxDocs :
          EvalGetCourses([userId |-> userId, searchTerm |-> term, limit |-> n])
    \/ \E term \in SearchTerms, ok \in BOOLEAN : searchCourses(term, ok)

SpecSearch == InitSearch /\ [][NextSearch]_vars

\* String.prototype.startsWith, compared code point by code point
StartsWith(name, term) ==
    /\ Len(term) <= Len(name)
    /\ \A i \in DOMAIN term : name[i] = term[i]

IdsOf(docs) == {docs[i].id : i \in DOMAIN docs}

\* C10: without a limit, getCourses with a non-empty search term returns
\* exactly the courses of the scope whose name starts with the term (case-
\* sensitively), and with an empty term every course of the scope.
C10_SearchIsStartsWith ==
    (result.op = "getCourses" /\ result.options.limit = 0) =>
        IdsOf(result.value) =
            {coursesDb[i].id : i \in
                {j \in DOMAIN coursesDb :
                    /\ InScope(coursesDb[j], result.options.userId)
                    /\ \/ result.options.searchTerm = <<>>
                       \/ StartsWith(coursesDb[j].name,
                                     result.options.searchTerm)}}

\* the courses of the collection that the call's scope selects: those of
\* the user when a userId is given, the public ones otherwise
ScopeOf(options) ==
    {d \in Range(coursesDb) :
        IF options.userId # "" THEN d.createdBy = options.userId
        ELSE d.isPublic = TRUE}

\* C11: getCourses (called directly or by searchCourses) returns only
\* courses of its scope (the user's own whatever isPublic, or the public
\* ones when no userId is given), in ascending name order; without a search
\* term it returns the whole scope, or with a limit n the first n of it:
\* n courses (all if fewer) such that none left out has a smaller name.
C11_ScopeOrderLimit ==
    (result.op \in {"getCourses", "searchCourses"}
     /\ "outcome" \notin DOMAIN result) =>
        LET rows == result.value
            scope == ScopeOf(result.options)
            n == result.options.limit
        IN  /\ Range(rows) \subseteq scope
            /\ \A i, j \in DOMAIN rows : i # j => rows[i].id # rows[j].id
            /\ \A i, j \in DOMAIN rows :
                  i < j => StrLeq(rows[i].name, rows[j].name)
            /\ result.options.searchTerm = <<>> =>
                  /\ Len(rows) = IF n > 0 /\ n < Cardinality(scope)
                                 THEN n ELSE Cardinality(scope)
                  /\ \A d \in scope \ Range(rows) : \A i \in DOMAIN rows :
                        StrLeq(rows[i].name, d.name)

\* u1 asked for one course and got the first by name of its two, one of
\* them private, the other public
C11_Witness ==
    /\ result.op = "getCourses"
    /\ result.options = [userId |-> "u1", searchTerm |-> <<>>, limit |-> 1]
    /\ Len(coursesDb) = 2
    /\ \A i \in 1..2 : coursesDb[i].createdBy = "u1"
    /\ coursesDb[1].isPublic /\ ~coursesDb[2].isPublic
    /\ coursesDb[1].name = <<97, 98>> /\ coursesDb[2].name = <<97>>
    /\ IdsOf(result.value) = {"k2"}

----------------------------------------------------------------------------
(* firebase.ts createCourse and CourseContext.tsx createNewCourse.         *)
(* A payload is a function from the keys it carries to their values: a     *)
(* key it lacks is a missing field.                                        *)

RequiredFields == {"name", "location", "holes", "par"}

\* requiredFields.filter(field => !(field in courseData))
MissingFields(courseData) == RequiredFields \ DOMAIN courseData

\* courseData.f || d, and courseData.f?.g
Field(courseData, f, d) ==
    IF f \in DOMAIN courseData THEN courseData[f] ELSE d

\* x || d for a number, a string or a list x
Truthy(x) == x # 0 /\ x # <<>> /\ x # FALSE

\* String.prototype.trim on code points (32 is the space)
RECURSIVE TrimStart(_)
TrimStart(str) ==
    IF str # <<>> /\ Head(str) = 32 THEN TrimStart(Tail(str)) ELSE str

RECURSIVE TrimEnd(_)
TrimEnd(str) ==
    IF str # <<>> /\ str[Len(str)] = 32
    THEN TrimEnd(SubSeq(str, 1, Len(str) - 1)) ELSE str

Trim(str) == TrimEnd(TrimStart(str))

\* { ...a, ...b }
Spread(a, b) ==
    [k \in DOMAIN a \cup DOMAIN b |-> IF k \in DOMAIN b THEN b[k] ELSE a[k]]

\* courseWithTimestamps of createCourse
courseWithTimestamps(courseData, userId, now) ==
    Spread(courseData,
           [createdAt |-> now, updatedAt |-> now, createdBy |-> userId,
            isPublic |-> Field(courseData, "isPublic", FALSE) = TRUE,
            amenities |-> Field(courseData, "amenities", <<>>),
            rating |-> Field(courseData, "rating", 0),
            slope |-> Field(courseData, "slope", 0)])

\* what createCourse does: the error it throws, or the document it adds.
\* storeOk is the answer of the store's addDoc.
createCourseOutcome(courseData, userId, storeOk) ==
    IF userId = ""
    THEN [thrown |-> TRUE,
          error |-> "Failed to create course: User ID is required to create a course"]
    ELSE IF MissingFields(courseData) # {}
    THEN [thrown |-> TRUE,
          error |-> "Failed to create course: Missing required fields"]
    ELSE IF ~storeOk
    THEN [thrown |-> TRUE, error |-> "Failed to create course: unavailable"]
    ELSE [thrown |-> FALSE,
          doc |-> Spread(courseWithTimestamps(courseData, userId, clock + 1),
                         [id |-> DocIds[Len(coursesDb) + 1]])]

createCourse(courseData, userId, storeOk) ==
    LET out == createCourseOutcome(courseData, userId, storeOk)
    IN  /\ Len(coursesDb) < MaxCourses
        /\ IF out.thrown
           THEN /\ result' = [op |-> "createCourse", payload |-> courseData,
                              outcome |-> "thrown", value |-> out.error]
                /\ UNCHANGED <<coursesDb, clock>>
           ELSE /\ coursesDb' = Append(coursesDb, out.doc)
                /\ clock' = clock + 1
                /\ result' = [op |-> "createCourse", payload |-> courseData,
                              outcome |-> "returned", value |-> out.doc.id]
        /\ UNCHANGED <<courses, coursesLoading, currentCourse, coursesError,
                       currentUser, notCourseVars>>

\* the payload with nothing filled in and nothing overridden
courseAsGiven(courseData, uid) == courseData

\* courseWithUserData of createNewCourse
courseWithUserData(courseData, uid) ==
    LET location == Field(courseData, "location", [address |-> <<>>])
    IN  Spread(courseData,
               [name |-> Trim(Field(courseData, "name", <<>>)),
                location |-> [address |-> Field(location, "address", <<>>),
                              lat |-> Field(location, "lat", 0),
                              lng |-> Field(location, "lng", 0)],
                holes |-> OrDefault(Field(courseData, "holes", 0), DefaultHoles),
                par |-> OrDefault(Field(courseData, "par", 0), DefaultPar),
                rating |-> Field(courseData, "rating", 0),
                slope |-> Field(courseData, "slope", 0),
                amenities |-> Field(courseData, "amenities", <<>>),
                createdBy |-> uid,
                isPublic |-> FALSE])

\* createNewCourse: createCourse, then getCourse of the new id (getOk is
\* the answer of that read) and the new course put first in courses;
\* any error is set as the context's error and thrown; loading is false
\* at the end
createNewCourse(courseData, storeOk, getOk) ==
    /\ Len(coursesDb) < MaxCourses
    /\ IF currentUser = Null
       THEN /\ coursesError' = "User must be logged in to create a course"
            /\ result' = [op |-> "createNewCourse", payload |-> courseData,
                          outcome |-> "thrown", value |-> coursesError']
            /\ UNCHANGED <<coursesDb, clock, courses, coursesLoading>>
       ELSE LET out == createCourseOutcome(
                           courseWithUserData(courseData, currentUser.uid),
                           currentUser.uid, storeOk)
            IN  /\ coursesLoading' = FALSE
                /\ IF out.thrown
                   THEN /\ coursesError' = out.error
                        /\ result' = [op |-> "createNewCourse",
                                      payload |-> courseData,
                                      outcome |-> "thrown",
                                      value |-> out.error]
                        /\ UNCHANGED <<coursesDb, clock, courses>>
                   ELSE /\ coursesDb' = Append(coursesDb, out.doc)
                        /\ clock' = clock + 1
                        /\ IF getOk
                           THEN /\ courses' = <<out.doc>> \o courses
                                /\ coursesError' = "null"
                                /\ result' = [op |-> "createNewCourse",
                                              payload |-> courseData,
                                              outcome |-> "returned",
                                              value |-> out.doc.id]
                           ELSE /\ coursesError' = "unavailable"
                                /\ result' = [op |-> "createNewCourse",
                                              payload |-> courseData,
                                              outcome |-> "thrown",
                                              value |-> "unavailable"]
                                /\ UNCHANGED courses
    /\ UNCHANGED <<currentCourse, currentUser, notCourseVars>>

----------------------------------------------------------------------------
(* SpecCourses: courses are created directly and through the context, by   *)
(* a signed-in user or by nobody, from payloads that carry any subset of   *)
(* the required fields.                                                    *)

\* "  Pine "
NamePadded == <<32, 32>> \o NamePine \o <<32>>

FullPayload ==
    [name |-> NamePadded,
     location |-> [address |-> <<49>>, lat |-> 4, lng |-> 5],
     holes |-> 9, par |-> 36]

\* fields a caller may add to the payload: an owner of its own choice, a
\* public flag, a rating, a slope and a list of amenities ("x")
ExtraFields ==
    [createdBy |-> "u2", isPublic |-> TRUE, rating |-> 7, slope |-> 113,
     amenities |-> <<<<120>>>>]

Restrict(f, keys) == [k \in keys |-> f[k]]

\* the payload without the fields of missing
PayloadWithout(missing) == Restrict(FullPayload, RequiredFields \ missing)

\* the complete payload, the payloads that lack one required field and the
\* empty payload; the complete and the empty one also with the extra fields
Payloads ==
    {PayloadWithout(missing) :
        missing \in {{}, RequiredFields} \cup {{f} : f \in RequiredFields}}
    \cup {Spread(PayloadWithout(missing), ExtraFields) :
             missing \in {{}, RequiredFields}}

InitCourses ==
    /\ RoundIdle /\ HistoryIdle /\ BoardIdle
    /\ coursesDb = <<>>
    /\ clock = 0
    /\ currentCourse = Null
    /\ coursesError = "null"
    /\ currentUser \in {Null, [uid |-> "u1"]}
    /\ result = NoResult

NextCourses ==
    \/ \E courseData \in Payloads, userId \in {"", "u1"}, storeOk \in BOOLEAN :
          createCourse(courseData, userId, storeOk)
    \/ \E courseData \in Payloads, storeOk \in BOOLEAN, getOk \in BOOLEAN :
          createNewCourse(courseData, storeOk, getOk)

SpecCourses == InitCourses /\ [][NextCourses]_vars

\* C5: a course creation (createCourse, or createNewCourse by a signed-in
\* user) whose payload lacks one of name, location, holes, par throws the
\* validation error and writes nothing to the courses collection.
C5_MissingFieldRejected ==
    [][(/\ result'.op \in {"createCourse", "createNewCourse"}
        /\ MissingFields(result'.payload) # {})
       => (/\ coursesDb' = coursesDb
           /\ result'.outcome = "thrown")]_vars

\* C14: a course written by createNewCourse belongs to the signed-in user
\* and is private, whatever the payload says, with amenities [] and rating
\* and slope 0 when the payload has none; with nobody signed in the call
\* throws, sets the context's error and writes nothing.
C14_CreatedByCallerAndPrivate ==
    [][(/\ result'.op = "createNewCourse"
        /\ (coursesDb' # coursesDb \/ result' # result))
       => IF currentUser = Null
          THEN /\ coursesDb' = coursesDb
               /\ result'.outcome = "thrown"
               /\ coursesError' = "User must be logged in to create a course"
          ELSE coursesDb' # coursesDb =>
                  LET written == coursesDb'[Len(coursesDb')]
                      payload == result'.payload
                  IN  /\ Len(coursesDb') = Len(coursesDb) + 1
                      /\ written.createdBy = currentUser.uid
                      /\ written.isPublic = FALSE
                      /\ written.amenities =
                            IF "amenities" \in DOMAIN payload
                            THEN payload.amenities ELSE <<>>
                      /\ written.rating =
                            IF "rating" \in DOMAIN payload
                            THEN payload.rating ELSE 0
                      /\ written.slope =
                            IF "slope" \in DOMAIN payload
                            THEN payload.slope ELSE 0]_vars

\* u1 has created a course from a payload that names u2 as owner and asks
\* for a public course, and another from a payload without amenities
C14_Witness ==
    /\ result.op = "createNewCourse"
    /\ result.outcome = "returned"
    /\ Len(coursesDb) = 2
    /\ result.payload = FullPayload
    /\ coursesDb[2].amenities = <<>>
    /\ coursesDb[1].amenities = ExtraFields.amenities
    /\ coursesDb[1].createdBy = "u1" /\ ~coursesDb[1].isPublic
    /\ coursesDb[2].createdBy = "u1" /\ ~coursesDb[2].isPublic

----------------------------------------------------------------------------
(* RoundHistory.tsx: the filters *)

\* String.prototype.toLowerCase on code points (65..90 are A..Z)
ToLowerCase(str) ==
    [i \in DOMAIN str |-> IF str[i] \in 65..90 THEN str[i] + 32 ELSE str[i]]

\* String.prototype.includes
StrIncludes(str, part) ==
    \E i \in 0..(Len(str) - Len(part)) :
        SubSeq(str, i + 1, i + Len(part)) = part

\* The course field of a round is a name (rounds of the first firebase.ts,
\* written here as [text |-> name]) or the course record NewRound stores.
IsText(course) == "text" \in DOMAIN course

\* String(course): the value of the course option of the filter dropdown;
\* an object is shown as "[object Object]"
ObjectText ==
    <<91, 111, 98, 106, 101, 99, 116, 32, 79, 98, 106, 101, 99, 116, 93>>

CourseOptionValue(course) == IF IsText(course) THEN course.text ELSE ObjectText

\* round.course.toLowerCase().includes(courseFilter.toLowerCase()) throws a
\* TypeError on a round whose course is a record
CourseFilterThrows ==
    courseFilter # <<>> /\ \E i \in DOMAIN rounds : ~IsText(rounds[i].course)

MatchesCourse(round, text) ==
    StrIncludes(ToLowerCase(round.course.text), ToLowerCase(text))

\* allUsers.find(user => user.name.toLowerCase().includes(...))
TargetUser(users, text) ==
    LET hits == {i \in DOMAIN users :
                    StrIncludes(ToLowerCase(users[i].name), ToLowerCase(text))}
    IN  IF hits = {} THEN Null
        ELSE users[CHOOSE i \in hits : \A j \in hits : i <= j]

\* the list the filter effect passes to setFilteredRounds
Filtered(list, users, byCourse, byPlayer, byDate) ==
    LET afterCourse ==
            IF byCourse # <<>>
            THEN SelectSeq(list, LAMBDA r : MatchesCourse(r, byCourse))
            ELSE list
        targetUser == TargetUser(users, byPlayer)
        afterPlayer ==
            IF byPlayer # <<>> /\ targetUser # Null
            THEN SelectSeq(afterCourse,
                           LAMBDA r : Includes(r.players, targetUser.uid))
            ELSE afterCourse
    IN  IF byDate # ""
        THEN SelectSeq(afterPlayer, LAMBDA r : r.date = byDate)
        ELSE afterPlayer

\* the filter effect (deps rounds, allUsers and the three filters), run
\* after a filter changed
FilterEffect ==
    IF CourseFilterThrows'
    THEN /\ historyFailed' = TRUE
         /\ UNCHANGED filteredRounds
    ELSE /\ filteredRounds' =
                Filtered(rounds', historyUsers', courseFilter', playerFilter',
                         dateFilter')
         /\ UNCHANGED historyFailed

\* getUniqueCourses and getUniqueDates: the options of the two dropdowns
UniqueCourseValues == {CourseOptionValue(rounds[i].course) : i \in DOMAIN rounds}

UniqueDates == {rounds[i].date : i \in DOMAIN rounds}

notHistoryVars == <<roundVars, result, courseVars, boardVars>>

SetCourseFilter(text) ==
    /\ ~historyFailed
    /\ text \in {<<>>} \cup UniqueCourseValues
    /\ courseFilter' = text
    /\ UNCHANGED <<rounds, historyUsers, playerFilter, dateFilter>>
    /\ FilterEffect
    /\ UNCHANGED notHistoryVars

SetPlayerFilter(text) ==
    /\ ~historyFailed
    /\ playerFilter' = text
    /\ UNCHANGED <<rounds, historyUsers, courseFilter, dateFilter>>
    /\ FilterEffect
    /\ UNCHANGED notHistoryVars

SetDateFilter(date) ==
    /\ ~historyFailed
    /\ date \in {""} \cup UniqueDates
    /\ dateFilter' = date
    /\ UNCHANGED <<rounds, historyUsers, courseFilter, playerFilter>>
    /\ FilterEffect
    /\ UNCHANGED notHistoryVars

----------------------------------------------------------------------------
(* SpecHistory: the page has fetched up to MaxRounds rounds, each a round  *)
(* of the first data layer (course name) or a round NewRound stored        *)
(* (course record), and the three profiles; the user changes the filters.  *)

\* "Al", "Alan", "Bo"
HistoryUserList ==
    << [uid |-> "u1", name |-> <<65, 108>>],
       [uid |-> "u2", name |-> <<65, 108, 97, 110>>],
       [uid |-> "u3", name |-> <<66, 111>>] >>

\* "", "al", "AN", "zz", "bo"
PlayerTexts ==
    { <<>>, <<97, 108>>, <<65, 78>>, <<122, 122>>, <<98, 111>> }

PlayerLists == { <<"u1">>, <<"u2", "u1">>, <<"u3">>, <<"u2">> }

\* a round of the first data layer: course is the course name
LegacyRound(name, date, players) ==
    [course |-> [text |-> name], date |-> date, players |-> players,
     scores |-> [i \in DOMAIN players |->
                    [uid |-> players[i], holes |-> Zeros(DefaultHoles)]],
     winner |-> players[1]]

\* a round as NewRound.handleSubmit stores it, with no stroke entered
StoredRound(course, date, players) ==
    RoundDataOf(course, date, players,
                [u \in Range(players) |-> Zeros(course.holes)], players[1])

RoundPool ==
    {LegacyRound(name, date, players) :
        name \in {NamePine, NameOak}, date \in Dates, players \in PlayerLists}
    \cup {StoredRound(CourseList[1], date, players) :
            date \in Dates, players \in PlayerLists}

InitHistory ==
    /\ RoundIdle /\ CoursesIdle /\ BoardIdle
    /\ result = NoResult
    /\ \E n \in 0..MaxRounds : \E picked \in [1..n -> RoundPool] :
          rounds = [i \in 1..n |-> Spread(picked[i], [id |-> i])]
    /\ historyUsers = HistoryUserList
    /\ courseFilter = <<>>
    /\ playerFilter = <<>>
    /\ dateFilter = ""
    /\ filteredRounds = rounds
    /\ historyFailed = FALSE

NextHistory ==
    \/ \E text \in {<<>>, NamePine, NameOak, ObjectText} : SetCourseFilter(text)
    \/ \E text \in PlayerTexts : SetPlayerFilter(text)
    \/ \E date \in {""} \cup Dates : SetDateFilter(date)

SpecHistory == InitHistory /\ [][NextHistory]_vars

\* the course name a round carries: the name itself, or the courseName
\* captured with the course record
CourseNameOf(round) ==
    IF IsText(round.course) THEN round.course.text ELSE round.courseName

SatisfiesCourse(round) ==
    StrIncludes(ToLowerCase(CourseNameOf(round)), ToLowerCase(courseFilter))

\* the users whose display name contains the player filter text
MatchingUids ==
    {historyUsers[i].uid : i \in
        {j \in DOMAIN historyUsers :
            StrIncludes(ToLowerCase(historyUsers[j].name),
                        ToLowerCase(playerFilter))}}

\* the player filter resolves to the first matching user; a round satisfies
\* it when it has that player
SatisfiesPlayer(round) ==
    /\ TargetUser(historyUsers, playerFilter) # Null
    /\ Includes(round.players, TargetUser(historyUsers, playerFilter).uid)

SatisfiesAll(round) ==
    /\ courseFilter # <<>> => SatisfiesCourse(round)
    /\ playerFilter # <<>> => SatisfiesPlayer(round)
    /\ dateFilter # "" => round.date = dateFilter

\* C6: the filtered list is the sublist, in the original order, of the
\* rounds that satisfy every filter whose value is not empty.
C6_FilterIsConjunctive ==
    filteredRounds = SelectSeq(rounds, SatisfiesAll)

\* C7: with a course filter set, the filter does not fail and the rounds
\* kept are rounds whose course name contains the filter text, every such
\* round being kept when no other filter is set.
C7_CourseFilterOnBothShapes ==
    courseFilter # <<>> =>
        /\ ~historyFailed
        /\ \A i \in DOMAIN filteredRounds : SatisfiesCourse(filteredRounds[i])
        /\ (playerFilter = <<>> /\ dateFilter = "")
              => filteredRounds = SelectSeq(rounds, SatisfiesCourse)

\* C8: with a player filter set, every round kept has a player whose
\* display name contains the filter text (so none is kept when no name
\* matches).
C8_PlayerFilterApplied ==
    (playerFilter # <<>> /\ ~historyFailed) =>
        \A i \in DOMAIN filteredRounds :
            Range(filteredRounds[i].players) \cap MatchingUids # {}

----------------------------------------------------------------------------
(* Dashboard.tsx: the leaderboard *)

\* A step of a sort that is not stable: a profile goes before the profiles
\* with as many wins.
InsertByWinsBefore(sorted, user) ==
    LET ahead == SelectSeq(sorted, LAMBDA u : u.stats.wins > user.stats.wins)
        behind == SelectSeq(sorted, LAMBDA u : u.stats.wins <= user.stats.wins)
    IN  ahead \o <<user>> \o behind

\* One step of Array.prototype.sort with the comparator
\* (a, b) => b.stats.wins - a.stats.wins: the sort is stable (ECMAScript
\* 2019), so a profile goes after every profile with as many wins or more.
InsertByWins(sorted, user) ==
    LET ahead == SelectSeq(sorted, LAMBDA u : u.stats.wins >= user.stats.wins)
        behind == SelectSeq(sorted, LAMBDA u : u.stats.wins < user.stats.wins)
    IN  ahead \o <<user>> \o behind

RECURSIVE SortByWins(_)
SortByWins(users) ==
    IF users = <<>> THEN <<>>
    ELSE InsertByWins(SortByWins(SubSeq(users, 1, Len(users) - 1)),
                      users[Len(users)])

\* slice(0, n)
Slice(seq, n) == SubSeq(seq, 1, IF Len(seq) < n THEN Len(seq) ELSE n)

\* allUsers.sort(...).slice(0, 5): the rows returned
getLeaderboard(users) == Slice(SortByWins(users), LeaderboardSize)

\* Math.round((wins / roundsPlayed) * 100) for counts that are not
\* negative: the nearest integer, a half rounded up
RoundedPercent(wins, roundsPlayed) ==
    (200 * wins + roundsPlayed) \div (2 * roundsPlayed)

\* getWinRate(): it takes no argument and reads the signed-in user's profile
getWinRate ==
    IF userProfile = Null \/ userProfile.stats.roundsPlayed = 0 THEN 0
    ELSE RoundedPercent(userProfile.stats.wins, userProfile.stats.roundsPlayed)

notBoardVars == <<roundVars, result, courseVars, historyVars>>

\* fetchData resolved: setAllUsers(users), then setLoading(false)
DashboardFetched ==
    /\ dashUsers' = usersDb
    /\ dashError' = "null"
    /\ dashLoading' = FALSE
    /\ UNCHANGED <<usersDb, leaderboard, userProfile, formVars, ctxVars>>
    /\ UNCHANGED notBoardVars

\* fetchData rejected: setError(...), then setLoading(false)
DashboardFetchFailed ==
    /\ dashError' = "Failed to load dashboard data. Please refresh the page."
    /\ dashLoading' = FALSE
    /\ UNCHANGED <<usersDb, dashUsers, leaderboard, userProfile, formVars, ctxVars>>
    /\ UNCHANGED notBoardVars

\* a render past the spinner calls getLeaderboard(): sort() reorders the
\* allUsers array in place
RenderLeaderboard ==
    /\ ~dashLoading
    /\ leaderboard' = [called |-> TRUE, input |-> dashUsers,
                       rows |-> getLeaderboard(dashUsers),
                       \* {getWinRate()}% win rate, in every row
                       rates |-> [i \in DOMAIN getLeaderboard(dashUsers) |->
                                     getWinRate]]
    /\ dashUsers' = SortByWins(dashUsers)
    /\ UNCHANGED <<usersDb, dashLoading, dashError, userProfile, formVars, ctxVars>>
    /\ UNCHANGED notBoardVars

----------------------------------------------------------------------------
(* SpecBoard: the store holds up to MaxUsers profiles; the Dashboard       *)
(* fetches them (again when the signed-in profile changes) and renders.    *)

BoardUids == <<"A", "B", "C", "D", "E", "F", "G", "H">>

WinCounts == {1, 3, 5}

\* stats.roundsPlayed of the stored profiles
PlayedCounts == {0, 5, 8}

InitBoard ==
    /\ RoundIdle /\ CoursesIdle /\ HistoryIdle
    /\ result = NoResult
    /\ \E n \in 0..MaxUsers : \E wins \in [1..n -> WinCounts] :
       \E played \in PlayedCounts :
          usersDb = [i \in 1..n |->
                        [uid |-> BoardUids[i],
                         stats |-> [wins |-> wins[i],
                                    roundsPlayed |-> played]]]
    /\ dashUsers = <<>>
    /\ dashLoading = TRUE
    /\ dashError = "null"
    /\ leaderboard = NoBoard
    \* the signed-in user: without a profile, or one of the first two stored
    /\ userProfile \in {Null} \cup {usersDb[i] : i \in DOMAIN usersDb \cap 1..2}
    /\ FormIdle /\ CtxIdle

NextBoard ==
    \/ DashboardFetched
    \/ DashboardFetchFailed
    \/ RenderLeaderboard

SpecBoard == InitBoard /\ [][NextBoard]_vars

\* the position of a profile in the order the store returned
StoreIndex(uid) == CHOOSE i \in DOMAIN usersDb : usersDb[i].uid = uid

\* a ranks ahead of b: more wins, or as many and earlier in the store
RanksAhead(a, b) ==
    \/ a.stats.wins > b.stats.wins
    \/ a.stats.wins = b.stats.wins /\ StoreIndex(a.uid) < StoreIndex(b.uid)

\* C9: getLeaderboard called on the fetched profiles returns min(5, n) of
\* them, each ranking ahead of the next (more wins, or as many wins and
\* earlier in the store's order) and ahead of every profile left out.
C9_LeaderboardOrder ==
    (leaderboard.called /\ leaderboard.input # <<>>) =>
        LET rows == leaderboard.rows
        IN  /\ Len(rows) = IF Len(usersDb) < 5 THEN Len(usersDb) ELSE 5
            /\ Range(rows) \subseteq Range(usersDb)
            /\ \A i, j \in DOMAIN rows : i < j => RanksAhead(rows[i], rows[j])
            /\ \A u \in Range(usersDb) \ Range(rows) :
                  \A i \in DOMAIN rows : RanksAhead(rows[i], u)

\* C23: evaluating getLeaderboard leaves the fetched allUsers list as it
\* was, in order and content.
C23_LeaderboardLeavesUsers ==
    [][RenderLeaderboard => dashUsers' = dashUsers]_vars

\* the win rate of a profile: round(100 * wins / roundsPlayed), 0 for a
\* profile without rounds
WinRateOf(user) ==
    IF user.stats.roundsPlayed = 0 THEN 0
    ELSE RoundedPercent(user.stats.wins, user.stats.roundsPlayed)

\* C25: every leaderboard row shows the win rate of the row's own user, and
\* a value in 0..100 when that user has no more wins than rounds.
C25_RowShowsOwnWinRate ==
    leaderboard.called =>
        \A i \in DOMAIN leaderboard.rows :
            /\ leaderboard.rates[i] = WinRateOf(leaderboard.rows[i])
            /\ leaderboard.rows[i].stats.roundsPlayed
                  >= leaderboard.rows[i].stats.wins
               => leaderboard.rates[i] \in 0..100

\* wins [3,5,5,1] for A,B,C,D have been ranked B,C,A,D
C9_Witness ==
    /\ leaderboard.called
    /\ [i \in DOMAIN usersDb |-> usersDb[i].stats.wins] = <<3, 5, 5, 1>>
    /\ [i \in DOMAIN leaderboard.rows |-> leaderboard.rows[i].uid]
          = <<"B", "C", "A", "D">>

----------------------------------------------------------------------------
(* firebase.ts updateCourse, deleteCourse and createRound *)

\* { ...updates, updatedAt: now } with the two parts in the other order
updateDataStale(updates, now) == Spread([updatedAt |-> now], updates)

\* updateData of updateCourse: { ...updates, updatedAt: Timestamp.now() }
updateData(updates, now) == Spread(updates, [updatedAt |-> now])

HasCourse(courseId) == \E i \in DOMAIN coursesDb : coursesDb[i].id = courseId

CourseDoc(db, courseId) == db[CHOOSE i \in DOMAIN db : db[i].id = courseId]

\* what the data-access calls of this section leave alone
editFrame == <<allUsers, loading, saving, savingShown, enteredSince, error, selectedCourse,
               roundDate,
               selectedPlayers, holeCount, scores, courses, coursesLoading,
               urlCourseId, userFetches, roundCalls, page, currentCourse,
               coursesError, currentUser, historyVars, boardVars>>

\* updateCourse: updateDoc merges updateData into the stored course; it is
\* rejected when the course does not exist or the store fails (ok false),
\* and the rejection is thrown again as "Failed to update course: ..."
updateCourse(courseId, updates, ok) ==
    /\ clock < MaxCourses + MaxEdits
    /\ clock' = clock + 1
    /\ IF ok /\ HasCourse(courseId)
       THEN /\ coursesDb' =
                  [i \in DOMAIN coursesDb |->
                      IF coursesDb[i].id = courseId
                      THEN Spread(coursesDb[i], updateData(updates, clock'))
                      ELSE coursesDb[i]]
            /\ result' = [op |-> "updateCourse", courseId |-> courseId,
                          updates |-> updates, at |-> clock',
                          outcome |-> "returned"]
       ELSE /\ UNCHANGED coursesDb
            /\ result' = [op |-> "updateCourse", courseId |-> courseId,
                          updates |-> updates, at |-> clock',
                          outcome |-> "thrown"]
    /\ UNCHANGED <<roundsDb, editFrame>>

\* a deletion that also deletes the rounds played on the course
deleteCourseCascade(courseId, ok) ==
    /\ clock < MaxCourses + MaxEdits
    /\ clock' = clock + 1
    /\ ok
    /\ coursesDb' = SelectSeq(coursesDb, LAMBDA d : d.id # courseId)
    /\ roundsDb' = SelectSeq(roundsDb, LAMBDA r : r.courseId # courseId)
    /\ result' = [op |-> "deleteCourse", courseId |-> courseId,
                  at |-> clock', outcome |-> "returned"]
    /\ UNCHANGED editFrame

\* deleteCourse: deleteDoc of the course document and nothing else;
\* deleting a course that does not exist succeeds
deleteCourse(courseId, ok) ==
    /\ clock < MaxCourses + MaxEdits
    /\ clock' = clock + 1
    /\ IF ok
       THEN /\ coursesDb' = SelectSeq(coursesDb, LAMBDA d : d.id # courseId)
            /\ result' = [op |-> "deleteCourse", courseId |-> courseId,
                          at |-> clock', outcome |-> "returned"]
       ELSE /\ UNCHANGED coursesDb
            /\ result' = [op |-> "deleteCourse", courseId |-> courseId,
                          at |-> clock', outcome |-> "thrown"]
    /\ UNCHANGED <<roundsDb, editFrame>>

RoundIds == <<"r1", "r2", "r3", "r4", "r5", "r6", "r7", "r8">>

\* createRound: addDoc of { ...roundData, createdAt: new Date() }
createRound(data) ==
    /\ clock < MaxCourses + MaxEdits
    /\ clock' = clock + 1
    /\ roundsDb' = Append(roundsDb,
                          Spread(data, [createdAt |-> clock',
                                        id |-> RoundIds[Len(roundsDb) + 1]]))
    /\ result' = [op |-> "createRound", at |-> clock', outcome |-> "returned",
                  value |-> RoundIds[Len(roundsDb) + 1]]
    /\ UNCHANGED <<coursesDb, editFrame>>

----------------------------------------------------------------------------
(* SpecEdit: the collection holds 1..MaxCourses courses; rounds are        *)
(* recorded on them as NewRound records them, and the courses are updated  *)
(* and deleted, at most MaxEdits calls in all.                             *)

EditNames == <<NamePine, NameOak, NameDell, NamePine>>

\* the fields an update may carry: a new name, a new hole count, and an
\* updatedAt of the caller's own
FullUpdate == [name |-> NamePadded, holes |-> 9, updatedAt |-> 0]

Updates == {Restrict(FullUpdate, keys) : keys \in SUBSET DOMAIN FullUpdate}

InitEdit ==
    /\ RoundIdle /\ HistoryIdle /\ BoardIdle
    /\ currentCourse = Null /\ coursesError = "null" /\ currentUser = Null
    /\ \E n \in 1..MaxCourses :
         /\ clock = n
         /\ coursesDb = [i \in 1..n |->
                StoredCourse(DocIds[i], EditNames[i], "u1", FALSE, i)]
    /\ result = NoResult

NextEdit ==
    \/ \E i \in 1..MaxCourses, updates \in Updates, ok \in BOOLEAN :
          updateCourse(DocIds[i], updates, ok)
    \/ \E i \in 1..MaxCourses, ok \in BOOLEAN : deleteCourse(DocIds[i], ok)
    \/ \E i \in DOMAIN coursesDb :
          createRound(RoundDataOf(coursesDb[i], "d1", <<"u1">>,
                                  [u \in {"u1"} |-> Zeros(coursesDb[i].holes)],
                                  "u1"))

SpecEdit == InitEdit /\ [][NextEdit]_vars

\* C12: no call removes a round or changes the courseId, courseName,
\* holeCount or par a round was recorded with, whatever is done to its
\* course.
C12_RoundsKeepSnapshot ==
    [][\A i \in DOMAIN roundsDb :
          /\ i \in DOMAIN roundsDb'
          /\ \A k \in {"id", "courseId", "courseName", "holeCount", "par"} :
                roundsDb'[i][k] = roundsDb[i][k]]_vars

\* a course has been deleted after a round was recorded on it, and the
\* round is still there
C12_Witness ==
    /\ result.op = "deleteCourse" /\ result.outcome = "returned"
    /\ roundsDb # <<>>
    /\ \A i \in DOMAIN roundsDb :
          /\ roundsDb[i].courseId = result.courseId
          /\ ~HasCourse(roundsDb[i].courseId)
          /\ roundsDb[i].courseName = NamePine

\* C13: a successful updateCourse leaves the course with updatedAt equal to
\* the time of the call, with the other fields of updates as given, and
\* with every other field as it was.
C13_UpdateRefreshesUpdatedAt ==
    [][(/\ clock' # clock
        /\ result'.op = "updateCourse"
        /\ result'.outcome = "returned")
       => LET before == CourseDoc(coursesDb, result'.courseId)
              after == CourseDoc(coursesDb', result'.courseId)
          IN  /\ HasCourse(result'.courseId)
              /\ after.updatedAt = clock'
              /\ \A k \in DOMAIN result'.updates \ {"updatedAt"} :
                    after[k] = result'.updates[k]
              /\ \A k \in DOMAIN before \ (DOMAIN result'.updates
                                            \cup {"updatedAt"}) :
                    after[k] = before[k]
              /\ \A j \in DOMAIN coursesDb :
                    coursesDb[j].id # result'.courseId
                        => coursesDb'[j] = coursesDb[j]]_vars

\* an update that carried its own updatedAt has been stored with the time
\* of the call
C13_Witness ==
    /\ result.op = "updateCourse"
    /\ result.outcome = "returned"
    /\ "updatedAt" \in DOMAIN result.updates
    /\ result.updates.updatedAt # result.at
    /\ CourseDoc(coursesDb, result.courseId).updatedAt = result.at
    /\ CourseDoc(coursesDb, result.courseId).createdAt # result.at

----------------------------------------------------------------------------
(* firebase.ts createUser, getUser and updateUser; AuthContext.tsx;        *)
(* Profile.tsx handleSave                                                  *)

\* the stats object createUser writes
NewStats ==
    [wins |-> 0, birdies |-> 0, bestScore |-> 999, averageScore |-> 0,
     roundsPlayed |-> 0]

\* a document that keeps the stats of the input when it has some
UserDocKeepStats(userData) ==
    Spread([stats |-> NewStats],
           Spread(userData,
                  [handicap |-> IF Field(userData, "handicap", 0) # 0
                                THEN userData.handicap ELSE Null]))

\* the document createUser writes:
\* { ...userData, handicap: userData.handicap || null, stats: {...} }
UserDoc(userData) ==
    Spread(userData,
           [handicap |-> IF Field(userData, "handicap", 0) # 0
                         THEN userData.handicap ELSE Null,
            stats |-> NewStats])

HasUser(uid) == \E i \in DOMAIN usersDb : usersDb[i].uid = uid

UserOf(uid) == usersDb[CHOOSE i \in DOMAIN usersDb : usersDb[i].uid = uid]

\* doc.data(): the fields of a stored document, without its identifier
DocData(document, key) == Restrict(document, DOMAIN document \ {key})

\* getUser: { uid, ...data } of the document, or null when there is none
getUser(uid) ==
    IF HasUser(uid) THEN Spread([uid |-> uid], DocData(UserOf(uid), "uid"))
    ELSE Null

\* what the profile calls leave alone
userFrame == <<roundVars, coursesDb, currentCourse, coursesError,
               historyVars, dashUsers, dashLoading, dashError, leaderboard,
               formVars, courseOps, effectPending>>

\* a getUser call in flight: the uid asked for, and whether the listener of
\* onAuthStateChanged (or refreshUserProfile) awaits it
ProfileFetch(uid, listener) == [uid |-> uid, listener |-> listener]

\* the listener of onAuthStateChanged up to its await: setCurrentUser(user);
\* for a user getUser(user.uid) is issued, for nobody setUserProfile(null)
\* and setLoading(false)
AuthStateChanged(user) ==
    /\ currentUser' = user
    /\ IF user # Null
       THEN /\ Len(profileFetches) < MaxInFlight
            /\ profileFetches' =
                  Append(profileFetches, ProfileFetch(user.uid, TRUE))
            /\ UNCHANGED <<userProfile, authLoading>>
       ELSE /\ userProfile' = Null
            /\ authLoading' = FALSE
            /\ UNCHANGED profileFetches
    /\ UNCHANGED <<usersDb, clock, result, userFrame>>

\* refreshUserProfile up to its await: getUser(currentUser.uid) is issued
\* when somebody is signed in
StartRefresh ==
    IF currentUser # Null
    THEN profileFetches' =
            Append(profileFetches, ProfileFetch(currentUser.uid, FALSE))
    ELSE UNCHANGED profileFetches

refreshUserProfile ==
    /\ Len(profileFetches) < MaxInFlight
    /\ StartRefresh
    /\ UNCHANGED <<currentUser, userProfile, authLoading, usersDb, clock,
                   result, userFrame>>

\* getUser resolves: setUserProfile(profile), and in the listener
\* setLoading(false)
ProfileFetched(i) ==
    /\ i \in DOMAIN profileFetches
    /\ userProfile' = getUser(profileFetches[i].uid)
    /\ authLoading' = IF profileFetches[i].listener THEN FALSE ELSE authLoading
    /\ profileFetches' = RemoveAt(profileFetches, i)
    /\ UNCHANGED <<currentUser, usersDb, clock, result, userFrame>>

\* getUser rejects: refreshUserProfile catches and logs; the listener has no
\* try block, so its setUserProfile and setLoading(false) are not reached
ProfileFetchFailed(i) ==
    /\ i \in DOMAIN profileFetches
    /\ profileFetches' = RemoveAt(profileFetches, i)
    /\ UNCHANGED <<currentUser, userProfile, authLoading, usersDb, clock,
                   result, userFrame>>

\* part_006 ProtectedRoute: what it renders
ProtectedRoute ==
    IF authLoading THEN "LoadingSpinner"
    ELSE IF currentUser = Null THEN "Navigate to /login"
    ELSE "children"

\* createUser: setDoc of users/<auth.currentUser.uid>, which replaces a
\* document already there
createUser(userData) ==
    /\ currentUser # Null
    /\ clock < MaxCourses + MaxEdits
    /\ clock' = clock + 1
    /\ LET written == Spread(UserDoc(userData), [uid |-> currentUser.uid])
       IN  usersDb' =
              IF HasUser(currentUser.uid)
              THEN [i \in DOMAIN usersDb |->
                       IF usersDb[i].uid = currentUser.uid THEN written
                       ELSE usersDb[i]]
              ELSE Append(usersDb, written)
    /\ result' = [op |-> "createUser", userData |-> userData,
                  outcome |-> "returned"]
    /\ UNCHANGED <<currentUser, userProfile, authLoading, profileFetches,
                   userFrame>>

\* parseFloat of a string of decimal digits (48 is "0")
RECURSIVE ParseFloat(_)
ParseFloat(text) ==
    IF text = <<>> THEN 0
    ELSE 10 * ParseFloat(SubSeq(text, 1, Len(text) - 1))
            + (text[Len(text)] - 48)

\* the fields of the updates object of handleSave that have a value
SaveUpdates(name, homeCourse, handicap) ==
    Spread(Spread([name |-> Trim(name)],
                  IF Trim(homeCourse) # <<>>
                  THEN [homeCourse |-> Trim(homeCourse)] ELSE <<>>),
           IF handicap # <<>> THEN [handicap |-> ParseFloat(handicap)]
           ELSE <<>>)

\* homeCourse.trim() || undefined and handicap ? ... : undefined: updateDoc
\* rejects an object that has a field with the value undefined
SaveHasUndefined(homeCourse, handicap) ==
    Trim(homeCourse) = <<>> \/ handicap = <<>>

\* Profile.handleSave with the form's name, home course and handicap:
\* updateUser (updateDoc merges the updates into the profile; it is rejected
\* without a profile or when the store fails), then refreshUserProfile is
\* called, whose failure it does not see
handleSave(name, homeCourse, handicap, ok) ==
    /\ currentUser # Null
    /\ Len(profileFetches) < MaxInFlight
    /\ clock < MaxCourses + MaxEdits
    /\ clock' = clock + 1
    /\ IF Trim(name) = <<>>
       THEN /\ result' = [op |-> "handleSave", outcome |-> "refused",
                          error |-> "Name is required"]
            /\ UNCHANGED <<usersDb, profileFetches>>
       ELSE IF \/ SaveHasUndefined(homeCourse, handicap)
               \/ ~HasUser(currentUser.uid)
               \/ ~ok
       THEN /\ result' = [op |-> "handleSave", outcome |-> "thrown",
                          error |-> "Failed to update profile. Please try again."]
            /\ UNCHANGED <<usersDb, profileFetches>>
       ELSE /\ usersDb' =
                  [i \in DOMAIN usersDb |->
                      IF usersDb[i].uid = currentUser.uid
                      THEN Spread(usersDb[i],
                                  SaveUpdates(name, homeCourse, handicap))
                      ELSE usersDb[i]]
            /\ StartRefresh
            /\ result' = [op |-> "handleSave", outcome |-> "returned",
                          error |-> ""]
    /\ UNCHANGED <<currentUser, userProfile, authLoading, userFrame>>

----------------------------------------------------------------------------
(* SpecUsers: two accounts sign in and out, create their profile (from     *)
(* input with and without stats of its own), edit it, and rounds are       *)
(* recorded, at most MaxCourses + MaxEdits calls in all.                   *)

\* "Al"; with stats of its own and the photo "s"
UserInputs ==
    { [name |-> <<65, 108>>],
      [name |-> <<65, 108>>, handicap |-> 7],
      [name |-> <<65, 108>>, photoURL |-> "s",
       stats |-> [wins |-> 5, birdies |-> 1, bestScore |-> 70,
                  averageScore |-> 80, roundsPlayed |-> 2]] }

\* "", " Bo "
FormNames == { <<>>, <<32, 66, 111, 32>> }

\* "", "7"
FormHandicaps == { <<>>, <<55>> }

Accounts == {[uid |-> "u1"], [uid |-> "u2"]}

InitUsers ==
    /\ RoundIdle /\ HistoryIdle
    /\ coursesDb = <<>> /\ clock = 0 /\ currentCourse = Null
    /\ coursesError = "null"
    /\ currentUser = Null
    /\ usersDb = <<>>
    /\ dashUsers = <<>> /\ dashLoading = TRUE /\ dashError = "null"
    /\ leaderboard = NoBoard
    /\ userProfile = Null
    /\ FormIdle /\ CtxIdle
    /\ result = NoResult

\* The calls are explored while no profile read is in flight; SpecAuth
\* below interleaves the reads with the auth-state notifications.
NextUsers ==
    \/ /\ profileFetches = <<>>
       /\ \/ \E user \in Accounts \cup {Null} : AuthStateChanged(user)
          \/ \E userData \in UserInputs : createUser(userData)
          \/ \E name \in FormNames, homeCourse \in {<<>>, NamePine},
                handicap \in FormHandicaps, ok \in BOOLEAN :
                handleSave(name, homeCourse, handicap, ok)
          \/ /\ usersDb # <<>>
             /\ Len(roundsDb) < 1
             /\ createRound(RoundDataOf(CourseList[1], "d1", <<usersDb[1].uid>>,
                               [u \in {usersDb[1].uid} |-> Zeros(CourseList[1].holes)],
                               usersDb[1].uid))
    \/ \E i \in DOMAIN profileFetches : ProfileFetched(i)
    \/ \E i \in DOMAIN profileFetches : ProfileFetchFailed(i)

SpecUsers == InitUsers /\ [][NextUsers]_vars
\* C17: every stored profile has the statistics createUser writes (wins 0,
\* birdies 0, bestScore 999, averageScore 0, roundsPlayed 0), hence
\* roundsPlayed >= wins, whatever stats the input of createUser carried and
\* after any profile edit and round creation.
C17_StatsStayAsCreated ==
    \A i \in DOMAIN usersDb :
        /\ usersDb[i].stats.roundsPlayed >= usersDb[i].stats.wins
        /\ usersDb[i].stats = NewStats

\* a profile created from input with stats of its own has been renamed by
\* handleSave and its user has won a recorded round
C17_Witness ==
    /\ result.op = "handleSave" /\ result.outcome = "returned"
    /\ \E i \in DOMAIN usersDb :
          /\ "photoURL" \in DOMAIN usersDb[i]
          /\ usersDb[i].name = <<66, 111>>
          /\ usersDb[i].stats.wins = 0
          /\ \E r \in DOMAIN roundsDb : roundsDb[r].winner = usersDb[i].uid

----------------------------------------------------------------------------
(* SpecAuth: AuthProvider under auth-state notifications for two accounts  *)
(* (u1 with a stored profile or without, u2 without), refreshUserProfile   *)
(* calls and getUser answers in any order, up to MaxInFlight calls in      *)
(* flight.                                                                 *)

InitAuth ==
    /\ RoundIdle /\ HistoryIdle
    /\ coursesDb = <<>> /\ clock = 0 /\ currentCourse = Null
    /\ coursesError = "null"
    /\ currentUser = Null
    /\ usersDb \in {<<>>, <<Spread(UserDoc([name |-> <<65, 108>>]),
                                   [uid |-> "u1"])>>}
    /\ dashUsers = <<>> /\ dashLoading = TRUE /\ dashError = "null"
    /\ leaderboard = NoBoard
    /\ userProfile = Null
    /\ FormIdle /\ CtxIdle
    /\ result = NoResult

NextAuth ==
    \/ \E user \in Accounts \cup {Null} : AuthStateChanged(user)
    \/ refreshUserProfile
    \/ \E i \in DOMAIN profileFetches : ProfileFetched(i)
    \/ \E i \in DOMAIN profileFetches : ProfileFetchFailed(i)

SpecAuth == InitAuth /\ [][NextAuth]_vars

\* C26: whenever AuthProvider holds a profile, somebody is signed in and
\* the profile is that user's.
C26_ProfileIsOfCurrentUser ==
    userProfile # Null =>
        /\ currentUser # Null
        /\ userProfile.uid = currentUser.uid

\* C27: once the handling of an auth-state notification has ended (somebody
\* is signed in, or nobody is, and no getUser call of the listener is in
\* flight), loading is false, whether the call resolved or was rejected;
\* and ProtectedRoute renders its children only when loading is false and
\* somebody is signed in.
C27_LoadingEnds ==
    /\ (/\ currentUser # Null
        /\ \A i \in DOMAIN profileFetches : ~profileFetches[i].listener)
       => ~authLoading
    /\ ProtectedRoute = "children" => (~authLoading /\ currentUser # Null)

----------------------------------------------------------------------------
(* ScoreInput.tsx: the label and the colour of a hole entry *)

\* labels counted from a par of 3 instead of 4
getScoreLabelParThree(score) ==
    IF score = 1 THEN "Eagle"
    ELSE IF score = 2 THEN "Birdie"
    ELSE IF score = 3 THEN "Par"
    ELSE IF score = 4 THEN "Bogey"
    ELSE IF score >= 5 THEN "Double+"
    ELSE ""

getScoreLabel(score) ==
    IF score = 1 THEN "Hole in One!"
    ELSE IF score = 2 THEN "Eagle"
    ELSE IF score = 3 THEN "Birdie"
    ELSE IF score = 4 THEN "Par"
    ELSE IF score = 5 THEN "Bogey"
    ELSE IF score >= 6 THEN "Double+"
    ELSE ""

\* the colour classes, named by their first class
getScoreColor(score) ==
    IF score = 1 THEN "bg-green-100"
    ELSE IF score = 2 THEN "bg-blue-100"
    ELSE IF score = 3 THEN "bg-purple-100"
    ELSE IF score = 4 THEN "bg-gray-100"
    ELSE IF score = 5 THEN "bg-yellow-100"
    ELSE IF score >= 6 THEN "bg-red-100"
    ELSE "bg-gray-50"

EvalScoreLabel ==
    /\ result.op = "ScoreInput"
    /\ "label" \notin DOMAIN result
    /\ result' = Spread(result, [label |-> getScoreLabel(result.value)])
    /\ UNCHANGED <<roundVars, courseVars, historyVars, boardVars>>

EvalScoreColor ==
    /\ result.op = "ScoreInput"
    /\ "color" \notin DOMAIN result
    /\ result' = Spread(result, [color |-> getScoreColor(result.value)])
    /\ UNCHANGED <<roundVars, courseVars, historyVars, boardVars>>

----------------------------------------------------------------------------
(* SpecLabel: a ScoreInput is rendered with every value 0..MaxScore, on a  *)
(* round of a course of any par.                                           *)

InitLabel ==
    /\ RoundIdle /\ CoursesIdle /\ HistoryIdle /\ BoardIdle
    /\ \E value \in 0..MaxScore, par \in {CourseList[i].par :
                                            i \in DOMAIN CourseList} :
          result = [op |-> "ScoreInput", value |-> value, par |-> par]

NextLabel == EvalScoreLabel \/ EvalScoreColor

SpecLabel == InitLabel /\ [][NextLabel]_vars

\* C18: the label of a hole entry depends on the stroke count alone: 1 hole
\* in one, 2 eagle, 3 birdie, 4 par, 5 bogey, 6 and more double bogey or
\* worse, 0 no label, on a course of any par.
C18_LabelOfStrokes ==
    (result.op = "ScoreInput" /\ "label" \in DOMAIN result) =>
        result.label =
            CASE result.value = 0 -> ""
              [] result.value = 1 -> "Hole in One!"
              [] result.value = 2 -> "Eagle"
              [] result.value = 3 -> "Birdie"
              [] result.value = 4 -> "Par"
              [] result.value = 5 -> "Bogey"
              [] result.value \in 6..(MaxScore + 1) -> "Double+"

\* three strokes have been labelled a birdie on the 9-hole course of par 36
C18_Witness ==
    /\ result.op = "ScoreInput"
    /\ result.value = 3 /\ result.par = 36
    /\ "label" \in DOMAIN result
    /\ result.label = "Birdie"

----------------------------------------------------------------------------
(* firebase.ts getCourse and getRound *)

\* a read that answers { id } for a course that does not exist
getCourseUnchecked(courseId) ==
    IF HasCourse(courseId)
    THEN Spread([id |-> courseId],
                DocData(CourseDoc(coursesDb, courseId), "id"))
    ELSE [id |-> courseId]

\* getCourse: { id: courseId, ...data } of the document, or null
getCourse(courseId) ==
    IF HasCourse(courseId)
    THEN Spread([id |-> courseId],
                DocData(CourseDoc(coursesDb, courseId), "id"))
    ELSE Null

HasRound(roundId) == \E i \in DOMAIN roundsDb : roundsDb[i].id = roundId

\* getRound: { id: roundId, ...data } of the document, or null
getRound(roundId) ==
    IF HasRound(roundId)
    THEN Spread([id |-> roundId],
                DocData(roundsDb[CHOOSE i \in DOMAIN roundsDb :
                                     roundsDb[i].id = roundId], "id"))
    ELSE Null

\* one read of a record by its identifier
EvalGet(op, id) ==
    /\ result = NoResult
    /\ result' = [op |-> op, id |-> id, outcome |-> "returned",
                  value |-> CASE op = "getUser" -> getUser(id)
                              [] op = "getCourse" -> getCourse(id)
                              [] op = "getRound" -> getRound(id)]
    /\ UNCHANGED <<roundVars, courseVars, historyVars, boardVars>>

----------------------------------------------------------------------------
(* SpecGet: the collections hold the profiles of up to two users and      *)
(* 0..MaxDocs courses and rounds, written as createUser, createCourse and *)
(* createRound write them; one record is read by an identifier that      *)
(* exists or not.                                                         *)

InitGet ==
    /\ RoundRestIdle /\ selectedPlayers = <<>> /\ scores = <<>>
    /\ HistoryIdle
    /\ currentCourse = Null /\ coursesError = "null" /\ currentUser = Null
    /\ dashUsers = <<>> /\ dashLoading = TRUE /\ dashError = "null"
    /\ leaderboard = NoBoard /\ userProfile = Null
    /\ FormIdle /\ CtxIdle
    /\ result = NoResult
    /\ clock = 2 * MaxDocs
    /\ \E n \in 0..Len(UserList) : \E inputs \in [1..n -> UserInputs] :
          usersDb = [i \in 1..n |->
                        Spread(UserDoc(inputs[i]), [uid |-> UserList[i]])]
    /\ \E n \in 0..MaxDocs :
          coursesDb = [i \in 1..n |->
                          StoredCourse(DocIds[i], EditNames[i], "u1", FALSE, i)]
    /\ \E n \in 0..MaxDocs :
          roundsDb = [i \in 1..n |->
                Spread(RoundDataOf(CourseList[i], "d1", <<"u1">>,
                                   [u \in {"u1"} |-> Zeros(CourseList[i].holes)],
                                   "u1"),
                       [createdAt |-> MaxDocs + i, id |-> RoundIds[i]])]

NextGet ==
    \/ \E uid \in Uids : EvalGet("getUser", uid)
    \/ \E i \in 1..(MaxDocs + 1) : EvalGet("getCourse", DocIds[i])
    \/ \E i \in 1..(MaxDocs + 1) : EvalGet("getRound", RoundIds[i])

SpecGet == InitGet /\ [][NextGet]_vars

\* the stored records of the collection a read addresses, and the name of
\* their identifier
StoredFor(op) ==
    CASE op = "getUser" -> [records |-> Range(usersDb), key |-> "uid"]
      [] op = "getCourse" -> [records |-> Range(coursesDb), key |-> "id"]
      [] op = "getRound" -> [records |-> Range(roundsDb), key |-> "id"]

\* C19: getUser, getCourse and getRound return null without an error when
\* no record has the identifier, and otherwise the stored record, carrying
\* the identifier asked for.
C19_GetReturnsNullOrRecord ==
    result.op \in {"getUser", "getCourse", "getRound"} =>
        LET stored == StoredFor(result.op)
            hits == {r \in stored.records : r[stored.key] = result.id}
        IN  /\ result.outcome = "returned"
            /\ hits = {} => result.value = Null
            /\ hits # {} => /\ result.value \in hits
                            /\ result.value[stored.key] = result.id

\* the third course was asked for and only two exist
C19_Witness ==
    /\ result.op = "getCourse"
    /\ Len(coursesDb) = 2
    /\ result.id = DocIds[3]
    /\ result.value = Null

----------------------------------------------------------------------------
(* CourseForm.tsx: the amenity list *)

\* the text of the input as typed
AmenityAsTyped(text) == text

\* currentAmenity.trim(): the label that is tested and stored
AmenityLabel(text) == Trim(text)

notFormVars == <<roundVars, result, courseVars, historyVars, usersDb,
                 dashUsers, dashLoading, dashError, leaderboard, userProfile,
                 ctxVars>>

\* onChange of the amenity input
setCurrentAmenity(text) ==
    /\ currentAmenity' = text
    /\ UNCHANGED <<amenities, notFormVars>>

\* handleAmenityAdd: a label that is not blank and not yet in the list is
\* appended and the input is cleared; otherwise nothing happens
handleAmenityAdd ==
    /\ IF /\ AmenityLabel(currentAmenity) # <<>>
          /\ ~Includes(amenities, AmenityLabel(currentAmenity))
       THEN /\ amenities' = Append(amenities, AmenityLabel(currentAmenity))
            /\ currentAmenity' = <<>>
       ELSE UNCHANGED <<amenities, currentAmenity>>
    /\ UNCHANGED notFormVars

\* handleAmenityRemove of the label of a remove button
handleAmenityRemove(amenityToRemove) ==
    /\ Includes(amenities, amenityToRemove)
    /\ amenities' = SelectSeq(amenities, LAMBDA a : a # amenityToRemove)
    /\ UNCHANGED <<currentAmenity, notFormVars>>

----------------------------------------------------------------------------
(* SpecForm: the user types into the amenity input, adds and removes       *)
(* labels, starting from the empty list of a new course.                   *)

\* "", " ", "a", " a ", "b ", "c", "d"
AmenityTexts ==
    { <<>>, <<32>>, <<97>>, <<32, 97, 32>>, <<98, 32>>, <<99>>, <<100>> }

InitForm ==
    /\ RoundIdle /\ CoursesIdle /\ HistoryIdle /\ BoardIdle
    /\ result = NoResult

NextForm ==
    \/ \E text \in AmenityTexts : setCurrentAmenity(text)
    \/ handleAmenityAdd
    \/ \E text \in AmenityTexts : handleAmenityRemove(Trim(text))

SpecForm == InitForm /\ [][NextForm]_vars

\* the position of a label in a list without duplicates
LabelIndex(list, label) == CHOOSE i \in DOMAIN list : list[i] = label

\* C20: the amenity list never holds a label twice, a blank label or a
\* label with spaces around it; a step keeps the labels that stay in their
\* order and puts a label it adds behind them.
C20_AmenityListClean ==
    /\ [](/\ \A i, j \in DOMAIN amenities :
                i # j => amenities[i] # amenities[j]
          /\ \A i \in DOMAIN amenities :
                /\ amenities[i] # <<>>
                /\ \E k \in DOMAIN amenities[i] : amenities[i][k] # 32
                /\ amenities[i][1] # 32
                /\ amenities[i][Len(amenities[i])] # 32)
    /\ [][/\ \A a, b \in Range(amenities) \cap Range(amenities') :
                LabelIndex(amenities, a) < LabelIndex(amenities, b)
                    => LabelIndex(amenities', a) < LabelIndex(amenities', b)
          /\ \A a \in Range(amenities') \ Range(amenities) :
                \A b \in Range(amenities) \cap Range(amenities') :
                    LabelIndex(amenities', b) < LabelIndex(amenities', a)]_vars

\* "b" and "a" are in the list in the order of their addition, and " a "
\* is typed into the input, which handleAmenityAdd refuses to add again
C20_Witness ==
    /\ amenities = << <<98>>, <<97>> >>
    /\ currentAmenity = <<32, 97, 32>>

----------------------------------------------------------------------------
(* CourseContext.tsx: the operations split at their await, and the fetch   *)
(* effects of CourseDetailPage and CoursesPage                             *)

\* what the context operations leave alone
ctxFrame == <<allUsers, loading, saving, savingShown, enteredSince, error,
              selectedCourse, roundDate, selectedPlayers, holeCount, scores,
              urlCourseId, userFetches, roundCalls, roundsDb, page, result,
              currentUser, historyVars, usersDb, dashUsers, dashLoading,
              dashError, leaderboard, userProfile, formVars, authLoading,
              profileFetches>>

PageMounted == page \in {"CourseDetailPage", "CoursesPage"}

\* an operation in flight: its name, its arguments, and the currentCourse
\* of the render that called it (the closure's value)
CourseOp(op, arg) == [op |-> op, arg |-> arg, seen |-> currentCourse]

\* try { setLoading(true); ... await <store call>: the start of every
\* operation; updateExistingCourse also calls setError(null)
Begin(op, arg, clearsError) ==
    /\ Len(courseOps) < MaxInFlight
    /\ coursesLoading' = TRUE
    /\ coursesError' = IF clearsError THEN "null" ELSE coursesError
    /\ courseOps' = Append(courseOps, CourseOp(op, arg))
    /\ UNCHANGED <<coursesDb, currentCourse, courses>>

\* a state setter given a new value renders the provider again, and every
\* render makes new fetchCourse and fetchUserCourses functions: the fetch
\* effect of the mounted page has them as dependencies and is run again
ProviderChanged ==
    \/ coursesLoading' # coursesLoading
    \/ coursesError' # coursesError

\* CourseDetailPage: useEffect(..., [courseId, fetchCourse])
CourseDetailEffect ==
    /\ page = "CourseDetailPage"
    /\ effectPending
    /\ IF urlCourseId # "null"
       THEN /\ Begin("fetchCourse", urlCourseId, FALSE)
            /\ effectPending' = ProviderChanged
       ELSE /\ effectPending' = FALSE
            /\ UNCHANGED <<coursesDb, currentCourse, courses, coursesLoading,
                           coursesError, courseOps>>
    /\ UNCHANGED <<clock, ctxFrame>>

\* CoursesPage: useEffect(..., [currentUser, fetchUserCourses])
CoursesPageEffect ==
    /\ page = "CoursesPage"
    /\ effectPending
    /\ IF currentUser # Null
       THEN /\ Begin("fetchUserCourses", currentUser.uid, FALSE)
            /\ effectPending' = ProviderChanged
       ELSE /\ effectPending' = FALSE
            /\ UNCHANGED <<coursesDb, currentCourse, courses, coursesLoading,
                           coursesError, courseOps>>
    /\ UNCHANGED <<clock, ctxFrame>>

\* the operations a user's action calls, up to their await
updateExistingCourse(courseId, updates) ==
    /\ clock < MaxCourses + MaxEdits
    /\ clock' = clock + 1
    /\ Begin("updateExistingCourse",
             [courseId |-> courseId, updates |-> updates], TRUE)
    /\ effectPending' = (effectPending \/ (PageMounted /\ ProviderChanged))
    /\ UNCHANGED ctxFrame

removeCourse(courseId) ==
    /\ clock < MaxCourses + MaxEdits
    /\ clock' = clock + 1
    /\ Begin("removeCourse", courseId, FALSE)
    /\ effectPending' = (effectPending \/ (PageMounted /\ ProviderChanged))
    /\ UNCHANGED ctxFrame

searchCoursesStart(searchTerm) ==
    /\ clock < MaxCourses + MaxEdits
    /\ clock' = clock + 1
    /\ Begin("searchCourses",
             [userId |-> IF currentUser = Null THEN "" ELSE currentUser.uid,
              searchTerm |-> searchTerm, limit |-> 0], FALSE)
    /\ effectPending' = (effectPending \/ (PageMounted /\ ProviderChanged))
    /\ UNCHANGED ctxFrame

\* { ...course, ...updates, updatedAt: Timestamp.now() }
Updated(course, updates) == Spread(Spread(course, updates), [updatedAt |-> clock])

\* the store call of an operation resolves: the state updates after the
\* await, then finally { setLoading(false) }
OpResolved(i) ==
    /\ i \in DOMAIN courseOps
    /\ LET o == courseOps[i]
       IN  CASE o.op = "fetchCourse" ->
                  /\ currentCourse' = getCourse(o.arg)
                  /\ UNCHANGED <<coursesDb, courses>>
                  \* a course just read is a new object
                  /\ effectPending' =
                        (effectPending \/ currentCourse' # Null
                           \/ currentCourse # Null \/ coursesLoading)
             [] o.op = "fetchUserCourses" ->
                  /\ courses' = getCourses([userId |-> o.arg,
                                            searchTerm |-> <<>>, limit |-> 0])
                  /\ UNCHANGED <<coursesDb, currentCourse>>
                  \* the list just read is a new array
                  /\ effectPending' = TRUE
             [] o.op = "updateExistingCourse" ->
                  /\ HasCourse(o.arg.courseId)
                  /\ coursesDb' =
                        [k \in DOMAIN coursesDb |->
                            IF coursesDb[k].id = o.arg.courseId
                            THEN Spread(coursesDb[k],
                                        updateData(o.arg.updates, clock))
                            ELSE coursesDb[k]]
                  /\ currentCourse' =
                        IF o.seen # Null /\ o.seen.id = o.arg.courseId
                        THEN Updated(o.seen, o.arg.updates)
                        ELSE currentCourse
                  /\ courses' =
                        [k \in DOMAIN courses |->
                            IF courses[k].id = o.arg.courseId
                            THEN Updated(courses[k], o.arg.updates)
                            ELSE courses[k]]
                  /\ effectPending' = TRUE
             [] o.op = "removeCourse" ->
                  /\ coursesDb' = SelectSeq(coursesDb, LAMBDA d : d.id # o.arg)
                  /\ courses' = SelectSeq(courses, LAMBDA c : c.id # o.arg)
                  /\ currentCourse' =
                        IF o.seen # Null /\ o.seen.id = o.arg THEN Null
                        ELSE currentCourse
                  /\ effectPending' = TRUE
             [] OTHER ->
                  \* searchCourses returns its results to the caller
                  /\ UNCHANGED <<coursesDb, currentCourse, courses>>
                  /\ effectPending' = (effectPending \/ coursesLoading)
    /\ coursesLoading' = FALSE
    /\ courseOps' = RemoveAt(courseOps, i)
    /\ UNCHANGED <<coursesError, clock, ctxFrame>>

\* the message the catch block of an operation sets
FailureMessage(op) ==
    CASE op = "fetchCourse" -> "Failed to load course. Please try again."
      [] op = "fetchUserCourses" ->
            "Failed to load your courses. Please try again."
      [] op = "updateExistingCourse" ->
            "Failed to update course. Please try again."
      [] op = "removeCourse" -> "Failed to delete course. Please try again."
      [] OTHER -> "Failed to search courses. Please try again."

\* the store call rejects: catch { setError(...); throw } and finally
\* { setLoading(false) }
OpRejected(i) ==
    /\ i \in DOMAIN courseOps
    /\ coursesError' = FailureMessage(courseOps[i].op)
    /\ coursesLoading' = FALSE
    /\ courseOps' = RemoveAt(courseOps, i)
    /\ effectPending' = (effectPending \/ ProviderChanged)
    /\ UNCHANGED <<coursesDb, currentCourse, courses, clock, ctxFrame>>

----------------------------------------------------------------------------
(* SpecContext: u1 is signed in and owns the 1..MaxCourses stored courses; *)
(* the provider's own effect has called fetchUserCourses, a page is        *)
(* mounted and its fetch effect is due; the user updates, removes and      *)
(* searches, at most MaxEdits times, while up to MaxInFlight operations    *)
(* are in flight and answered in any order.                                *)

InitContext ==
    /\ allUsers = <<>> /\ loading = TRUE /\ saving = FALSE
    /\ savingShown = FALSE /\ enteredSince = {} /\ error = "null"
    /\ selectedCourse = Null /\ roundDate = "d1"
    /\ selectedPlayers = <<>> /\ holeCount = DefaultHoles /\ scores = <<>>
    /\ userFetches = NoFetches /\ roundCalls = <<>> /\ roundsDb = <<>>
    \* the context's course list and loading flag, the page and its route
    \* parameter (a stored course or an unknown id)
    /\ courses = <<>>
    /\ coursesLoading = TRUE
    /\ \/ page = "CourseDetailPage" /\ urlCourseId \in {DocIds[1], "k9"}
       \/ page = "CoursesPage" /\ urlCourseId = "null"
    /\ HistoryIdle
    /\ result = NoResult
    /\ \E n \in 1..MaxCourses :
         /\ clock = n
         /\ coursesDb = [i \in 1..n |->
                StoredCourse(DocIds[i], EditNames[i], "u1", FALSE, i)]
    /\ currentCourse = Null
    /\ coursesError = "null"
    /\ currentUser = [uid |-> "u1"]
    /\ usersDb = <<>>
    /\ dashUsers = <<>> /\ dashLoading = TRUE /\ dashError = "null"
    /\ leaderboard = NoBoard
    /\ userProfile = Null
    /\ FormIdle
    /\ authLoading = FALSE
    /\ profileFetches = <<>>
    /\ courseOps = <<[op |-> "fetchUserCourses", arg |-> "u1", seen |-> Null]>>
    /\ effectPending = TRUE

NextContext ==
    \/ CourseDetailEffect
    \/ CoursesPageEffect
    \/ \E courseId \in {DocIds[1], "k9"} :
          updateExistingCourse(courseId, [holes |-> 9])
    \/ \E courseId \in {DocIds[1], "k9"} : removeCourse(courseId)
    \/ searchCoursesStart(NamePine)
    \/ \E i \in DOMAIN courseOps : OpResolved(i)
    \/ \E i \in DOMAIN courseOps : OpRejected(i)

SpecContext == InitContext /\ [][NextContext]_vars

\* C28: the loading flag of the CourseContext is true exactly while an
\* operation of the context is in flight.
C28_LoadingWhileInFlight ==
    coursesLoading <=> (courseOps # <<>>)

----------------------------------------------------------------------------
(* SpecPage: the same mount, with nothing but the page's fetch effect and  *)
(* the store's answers; every request is answered and every effect due is *)
(* run.                                                                    *)

NextPage ==
    \/ CourseDetailEffect
    \/ CoursesPageEffect
    \/ \E i \in DOMAIN courseOps : OpResolved(i)
    \/ \E i \in DOMAIN courseOps : OpRejected(i)

SpecPage ==
    /\ InitContext
    /\ [][NextPage]_vars
    /\ WF_vars(CourseDetailEffect)
    /\ WF_vars(CoursesPageEffect)
    /\ WF_vars(\E i \in DOMAIN courseOps : OpResolved(i) \/ OpRejected(i))

\* no request is in flight and no effect is due to issue another one
Quiescent == courseOps = <<>> /\ ~effectPending

\* C29: after the page has mounted, it eventually reaches a quiescent
\* state: only finitely many fetch requests are issued.
C29_PageSettles == <>Quiescent

====
